---- MODULE Spec2Model ----
(***************************************************************************)
(* VeeBoard: the board model (Store), the echo guard (Sync), the import    *)
(* merge (App.importJSON) and the card drag recogniser (Dnd), modelled     *)
(* from src/unnamed/part_001 (the module-based version, lines 798-2724).   *)
(*                                                                         *)
(* Values.  A timestamp field holds 0 when it is absent (undefined or ""), *)
(* -1 when it is a non-empty string Date.parse rejects, and n > 0 for the  *)
(* ISO string of the instant n (milliseconds).  seq holds -1 when it is    *)
(* absent (not a finite number), else a number >= 0.  lastChangedBy holds  *)
(* 0 for absent / "", else the rank of the origin id in string order.      *)
(***************************************************************************)
EXTENDS Integers, Sequences, FiniteSets, TLC

VARIABLES
    state,              \* Store.state.columns
    seqKey,             \* localStorage["vee-board-seq"]
    now,                \* Date.now()
    suppressEchoUntil,  \* Sync.suppressEchoUntil
    useFirebase,        \* DbSettings.get().useFirebase && firebaseConfig
    localStore,         \* localStorage[Store.STORAGE_KEY]: <<>> or <<columns>>
    remoteStore,        \* the remote board: <<>> or <<columns>>
    file,               \* the file chosen for import: <<>> (rejected) or <<columns>>
    lastSaveAt,         \* when Store.saveState last armed the echo guard, -1 if never
    Dnd,                \* the Dnd object: cardDrag, autoScrollInterval, suppressClick
    dom,                \* the document: the card lists of UI.board, ghosts, listeners
    timers,             \* the pending setTimeout callbacks of Dnd
    gesture,            \* what happened since the last accepted press (history)
    ev                  \* the last handler that ran, its arguments and the state it saw

vars == <<state, seqKey, now, suppressEchoUntil, useFirebase, localStore,
          remoteStore, file, lastSaveAt, Dnd, dom, timers, gesture, ev>>

storeVars == <<state, seqKey, now, suppressEchoUntil, useFirebase, localStore,
               remoteStore, file, lastSaveAt>>

dndVars == <<Dnd, dom, timers, gesture>>

----------------------------------------------------------------------------
(* Bounds of the model *)

MaxSeq == 3             \* the sequence counter is capped here
MaxNow == 1100          \* the clock is capped here
TickMs == 100           \* the step of the clock

(* Program constants *)

MuteMs == 900           \* Store.saveState: Sync.muteNext(900)
ClientId == 2           \* Meta.clientId, as its rank among the origin ids

----------------------------------------------------------------------------
(* Sequences *)

RemoveAt(s, i) == SubSeq(s, 1, i - 1) \o SubSeq(s, i + 1, Len(s))

\* Array.prototype.splice(i0, 0, x) with 0 <= i0 <= length (0-based)
InsertAt(s, i0, x) == SubSeq(s, 1, i0) \o <<x>> \o SubSeq(s, i0 + 1, Len(s))

\* Array.prototype.findIndex, 1-based; 0 when nothing matches
FirstIndex(s, P(_)) ==
    IF \E i \in 1..Len(s) : P(s[i])
    THEN CHOOSE i \in 1..Len(s) : P(s[i]) /\ \A j \in 1..(i - 1) : ~P(s[j])
    ELSE 0

SelectOut(s, P(_)) == SelectSeq(s, LAMBDA x : ~P(x))

----------------------------------------------------------------------------
(* Cards and columns *)

Card(id, title) ==
    [id |-> id, title |-> title, description |-> 0, tags |-> 1, due |-> 1,
     reminder |-> 0, createdAt |-> 0, lastChanged |-> 0, lastChangedBy |-> 0,
     seq |-> -1, contentChangedAt |-> 0, positionChangedAt |-> 0]

\* a card as Store.addCard creates it at instant t with sequence number s
AddedCard(id, title, t, s) ==
    [Card(id, title) EXCEPT !.createdAt = t, !.lastChanged = t,
        !.lastChangedBy = ClientId, !.seq = s,
        !.contentChangedAt = t, !.positionChangedAt = t]

Column(id, title, isDone, isArchive, cards) ==
    [id |-> id, title |-> title, isDone |-> isDone, isArchive |-> isArchive,
     cards |-> cards]

\* every card of the board, in column order
RECURSIVE AllCards(_)
AllCards(cols) ==
    IF cols = <<>> THEN <<>> ELSE Head(cols).cards \o AllCards(Tail(cols))

CardIds(cols) == {AllCards(cols)[i].id : i \in 1..Len(AllCards(cols))}

\* how many cards of the board carry this id
CountId(cols, id) ==
    Cardinality({i \in 1..Len(AllCards(cols)) : AllCards(cols)[i].id = id})

----------------------------------------------------------------------------
(* Sync and Meta *)

\* muteNext storing the duration instead of the deadline
muteNextNoClock(ms) == ms

\* Sync.muteNext(ms): the new value of suppressEchoUntil
muteNext(ms) == now + ms

\* Sync.shouldIgnore()
shouldIgnore == now < suppressEchoUntil

\* a counter that hands out the stored value again
nextSeqStale == seqKey

\* Meta.nextSeq(): the value returned, which is also the value stored
nextSeq == seqKey + 1

\* Utils.nowIso()
nowIso == now

----------------------------------------------------------------------------
(* Store *)

\* Store.findColumn: the index of the first column with this id, 0 if none
findColumn(cols, colId) == FirstIndex(cols, LAMBDA c : c.id = colId)

\* Store.findCard: <<column index, card index>> of the first card with this
\* id, in column order; <<0, 0>> when there is none
findCard(cols, cardId) ==
    LET hit(c) == \E i \in 1..Len(c.cards) : c.cards[i].id = cardId
        ci == FirstIndex(cols, hit)
    IN  IF ci = 0 THEN <<0, 0>>
        ELSE <<ci, FirstIndex(cols[ci].cards, LAMBDA k : k.id = cardId)>>

\* Store.saveState that gives up when the remote save fails
saveStateRemoteOnly(cols, ok) ==
    IF useFirebase
    THEN /\ suppressEchoUntil' = muteNext(MuteMs)
         /\ lastSaveAt' = now
         /\ remoteStore' = IF ok THEN <<cols>> ELSE remoteStore
         /\ UNCHANGED localStore
    ELSE /\ localStore' = <<cols>>
         /\ UNCHANGED <<suppressEchoUntil, remoteStore, lastSaveAt>>

\* Store.saveState, run to completion; ok: whether the remote save succeeds
saveState(cols, ok) ==
    IF useFirebase
    THEN /\ suppressEchoUntil' = muteNext(MuteMs)
         /\ lastSaveAt' = now
         /\ IF ok
            THEN remoteStore' = <<cols>> /\ UNCHANGED localStore
            ELSE localStore' = <<cols>> /\ UNCHANGED remoteStore
    ELSE /\ localStore' = <<cols>>
         /\ UNCHANGED <<suppressEchoUntil, remoteStore, lastSaveAt>>

\* moveCardApplies without the check that the card is in the source column
moveCardAppliesAnyCard(cols, cardId, fromColId, toColId) ==
    /\ findColumn(cols, fromColId) # 0
    /\ findColumn(cols, toColId) # 0

\* Store.moveCard reaches its splice: both columns exist, the card is in the source
moveCardApplies(cols, cardId, fromColId, toColId) ==
    /\ findColumn(cols, fromColId) # 0
    /\ findColumn(cols, toColId) # 0
    /\ \E i \in 1..Len(cols[findColumn(cols, fromColId)].cards) :
          cols[findColumn(cols, fromColId)].cards[i].id = cardId

\* placeCard clamping an out-of-range index to the front of the list
placeCardFront(cards, toIndex, card) ==
    IF toIndex < 0 \/ toIndex > Len(cards)
    THEN <<card>> \o cards
    ELSE InsertAt(cards, toIndex, card)

\* Store.moveCard: where the card goes in the target list
placeCard(cards, toIndex, card) ==
    IF toIndex < 0 \/ toIndex > Len(cards)
    THEN Append(cards, card)
    ELSE InsertAt(cards, toIndex, card)

\* a move stamp that marks the content as changed as well
stampMoveAsEdit(card, ts, by, sq) ==
    [card EXCEPT !.lastChanged = ts, !.lastChangedBy = by, !.seq = sq,
                 !.positionChangedAt = ts, !.contentChangedAt = ts]

\* Store.moveCard: the metadata stamp of the moved card
stampMove(card, ts, by, sq) ==
    [card EXCEPT !.lastChanged = ts, !.lastChangedBy = by, !.seq = sq,
                 !.positionChangedAt = ts]

\* moveCard leaving the card in the source list as well
moveCardKeepsSource(cols, cardId, fromColId, toColId, toIndex, ts, by, sq) ==
    LET f == findColumn(cols, fromColId)
        t == findColumn(cols, toColId)
    IN  IF f = 0 \/ t = 0 THEN cols
        ELSE LET ci == FirstIndex(cols[f].cards, LAMBDA k : k.id = cardId)
             IN  IF ci = 0 THEN cols
                 ELSE LET card == stampMove(cols[f].cards[ci], ts, by, sq)
                      IN  [cols EXCEPT ![t].cards = placeCard(@, toIndex, card)]

\* Store.moveCard: the columns after the call
moveCard(cols, cardId, fromColId, toColId, toIndex, ts, by, sq) ==
    LET f == findColumn(cols, fromColId)
        t == findColumn(cols, toColId)
    IN  IF f = 0 \/ t = 0 THEN cols
        ELSE LET ci == FirstIndex(cols[f].cards, LAMBDA k : k.id = cardId)
             IN  IF ci = 0 THEN cols
                 ELSE LET card == stampMove(cols[f].cards[ci], ts, by, sq)
                          c1 == [cols EXCEPT ![f].cards = RemoveAt(@, ci)]
                      IN  [c1 EXCEPT ![t].cards = placeCard(@, toIndex, card)]

----------------------------------------------------------------------------
(* App.importJSON, choice "merge".  The code works on objects: a column or *)
(* card of the file that is pushed into Store.state is the same object in  *)
(* both, so a later change of one shows in the other.  Cards are therefore *)
(* kept in a heap (reference -> card) while the merge runs, columns hold   *)
(* references, and the board is read back from the heap at the end.        *)

MinusInfinity == -1     \* stands for -Infinity: below every seq of the model

\* timeVal: Date.parse(t) || 0 for a non-empty t, else 0
timeVal(t) == IF t > 0 THEN t ELSE 0

\* normTitle: lowercased, trimmed, inner whitespace collapsed; the titles of
\* the model and their normal forms
normTitle(s) ==
    CASE s \in {"Todo", "todo", " To  Do "} -> (IF s = " To  Do " THEN "to do" ELSE "todo")
      [] s \in {"Done", " done ", "DONE"} -> "done"
      [] s \in {"Archive", "archive"} -> "archive"
      [] s \in {"New", " NEW", "new"} -> "new"
      [] OTHER -> s

Max3(a, b, c) ==
    IF a >= b /\ a >= c THEN a ELSE IF b >= c THEN b ELSE c

seqVal(q) == IF q >= 0 THEN q ELSE MinusInfinity

\* isContentANewer with the sequence number compared before the timestamp
isContentANewerSeqFirst(A, B) ==
    LET ta == Max3(timeVal(A.contentChangedAt), timeVal(A.lastChanged), timeVal(A.createdAt))
        tb == Max3(timeVal(B.contentChangedAt), timeVal(B.lastChanged), timeVal(B.createdAt))
        sa == seqVal(A.seq)
        sb == seqVal(B.seq)
    IN  IF sa # sb THEN sa > sb
        ELSE IF ta # tb THEN ta > tb
        ELSE A.lastChangedBy > B.lastChangedBy

\* isContentANewer(A, B)
isContentANewer(A, B) ==
    LET ta == Max3(timeVal(A.contentChangedAt), timeVal(A.lastChanged), timeVal(A.createdAt))
        tb == Max3(timeVal(B.contentChangedAt), timeVal(B.lastChanged), timeVal(B.createdAt))
        sa == seqVal(A.seq)
        sb == seqVal(B.seq)
    IN  IF ta # tb THEN ta > tb
        ELSE IF sa # sb THEN sa > sb
        ELSE A.lastChangedBy > B.lastChangedBy

\* isPositionANewer(A, B)
isPositionANewer(A, B) ==
    LET ta == timeVal(A.positionChangedAt)
        tb == timeVal(B.positionChangedAt)
        fa == timeVal(A.lastChanged)
        fb == timeVal(B.lastChanged)
        sa == seqVal(A.seq)
        sb == seqVal(B.seq)
    IN  IF ta # tb THEN ta > tb
        ELSE IF fa # fb THEN fa > fb
        ELSE IF sa # sb THEN sa > sb
        ELSE A.lastChangedBy > B.lastChangedBy

\* the content overwrite: content fields always, a metadata field only when
\* the incoming one is set
overwriteCard(ex, inc) ==
    [ex EXCEPT
        !.title = inc.title,
        !.description = inc.description,
        !.tags = IF inc.tags >= 1 THEN inc.tags ELSE 1,
        !.due = IF inc.due >= 2 THEN inc.due ELSE 1,
        !.reminder = inc.reminder,
        !.createdAt = IF inc.createdAt # 0 THEN inc.createdAt ELSE @,
        !.lastChanged = IF inc.lastChanged # 0 THEN inc.lastChanged ELSE @,
        !.seq = IF inc.seq # -1 THEN inc.seq ELSE @,
        !.lastChangedBy = IF inc.lastChangedBy # 0 THEN inc.lastChangedBy ELSE @,
        !.contentChangedAt = IF inc.contentChangedAt # 0 THEN inc.contentChangedAt ELSE @,
        !.positionChangedAt = IF inc.positionChangedAt # 0 THEN inc.positionChangedAt ELSE @]

\* the number of cards of the board
NumCards(cols) == Len(AllCards(cols))

\* the columns with each card replaced by its reference: the cards of the
\* board are numbered base+1, base+2, ... in column order
RECURSIVE RefCols(_, _)
RefCols(cols, base) ==
    IF cols = <<>> THEN <<>>
    ELSE LET c == Head(cols)
         IN  <<[c EXCEPT !.cards = [i \in 1..Len(c.cards) |-> base + i]]>>
                 \o RefCols(Tail(cols), base + Len(c.cards))

\* new Map(columns.map(c => [c.id, c])): a later column replaces an earlier
\* one with the same key; the value is the index of the column
existingById(cols) ==
    [k \in {cols[i].id : i \in 1..Len(cols)} |->
        CHOOSE i \in 1..Len(cols) :
            cols[i].id = k /\ \A j \in (i + 1)..Len(cols) : cols[j].id # k]

\* new Map(columns.map(c => [normTitle(c.title), c]))
existingByTitle(cols) ==
    [k \in {normTitle(cols[i].title) : i \in 1..Len(cols)} |->
        CHOOSE i \in 1..Len(cols) :
            /\ normTitle(cols[i].title) = k
            /\ \A j \in (i + 1)..Len(cols) : normTitle(cols[j].title) # k]

\* Map.get: the index, 0 when the key is absent
MapGet(map, k) == IF k \in DOMAIN map THEN map[k] ELSE 0

\* the target of an incoming column looked up by id only
resolveColumnByIdOnly(m, incCol) == MapGet(m.byId, incCol.id)

\* the target of an incoming column: by id, else by normalised title, else 0
resolveColumn(m, incCol) ==
    IF MapGet(m.byId, incCol.id) # 0 THEN MapGet(m.byId, incCol.id)
    ELSE MapGet(m.byTitle, normTitle(incCol.title))

\* step 2: resolve every incoming column, pushing the unmatched ones
RECURSIVE resolveColumns(_, _, _)
resolveColumns(m, incRefCols, j) ==
    IF j > Len(incRefCols) THEN m
    ELSE LET incCol == incRefCols[j]
             m1 == IF resolveColumn(m, incCol) # 0 THEN m
                   ELSE [m EXCEPT
                           !.cols = Append(@, incCol),
                           !.byId = (incCol.id :> (Len(m.cols) + 1)) @@ @,
                           !.byTitle = (normTitle(incCol.title) :> (Len(m.cols) + 1)) @@ @,
                           !.pushed = [@ EXCEPT ![j] = Len(m.cols) + 1]]
         IN  resolveColumns(m1, incRefCols, j + 1)

\* Store.findCard on the heap: <<column index, reference>> of the first
\* card with this id, <<0, 0>> when there is none
findCardRef(m, cardId) ==
    LET hit(c) == \E i \in 1..Len(c.cards) : m.heap[c.cards[i]].id = cardId
        ci == FirstIndex(m.cols, hit)
    IN  IF ci = 0 THEN <<0, 0>>
        ELSE <<ci, m.cols[ci].cards[
                     FirstIndex(m.cols[ci].cards, LAMBDA r : m.heap[r].id = cardId)]>>

\* step 3, one incoming card (reference r) of a column resolved to column t
mergeCard(m, t, r) ==
    LET found == findCardRef(m, m.heap[r].id)
        exCol == found[1]
        ex == found[2]
    IN  IF exCol = 0
        THEN [m EXCEPT !.cols[t].cards = Append(@, r)]
        ELSE LET m1 == IF isContentANewer(m.heap[r], m.heap[ex])
                       THEN [m EXCEPT !.heap[ex] = overwriteCard(@, m.heap[r])]
                       ELSE m
                 shouldMove == /\ m1.cols[exCol].id # m1.cols[t].id
                               /\ isPositionANewer(m1.heap[r], m1.heap[ex])
             IN  IF shouldMove
                 THEN [m1 EXCEPT
                         !.cols[exCol].cards =
                             SelectSeq(@, LAMBDA c : m1.heap[c].id # m1.heap[ex].id),
                         !.cols[t].cards = Append(@, ex)]
                 ELSE m1

\* incCol.cards.forEach: the references are those the array holds when the
\* loop starts
RECURSIVE mergeCards(_, _, _, _)
mergeCards(m, t, refs, i) ==
    IF i > Len(refs) THEN m
    ELSE mergeCards(mergeCard(m, t, refs[i]), t, refs, i + 1)

\* step 3: every incoming column, in file order
RECURSIVE mergeColumns(_, _, _)
mergeColumns(m, incRefCols, j) ==
    IF j > Len(incRefCols) THEN m
    ELSE LET t == resolveColumn(m, incRefCols[j])
             refs == IF m.pushed[j] # 0 THEN m.cols[m.pushed[j]].cards
                     ELSE incRefCols[j].cards
             m1 == IF t = 0 THEN m ELSE mergeCards(m, t, refs, 1)
         IN  mergeColumns(m1, incRefCols, j + 1)

\* the board read back from the heap
derefCols(m) ==
    [c \in 1..Len(m.cols) |->
        [m.cols[c] EXCEPT !.cards = [i \in 1..Len(m.cols[c].cards) |->
                                        m.heap[m.cols[c].cards[i]]]]]

\* the merge branch of App.importJSON: the columns of Store.state afterwards
importMerge(cols, incoming) ==
    LET nL == NumCards(cols)
        all == AllCards(cols) \o AllCards(incoming)
        incRefCols == RefCols(incoming, nL)
        m0 == [cols |-> RefCols(cols, 0),
               heap |-> [r \in 1..Len(all) |-> all[r]],
               byId |-> existingById(cols),
               byTitle |-> existingByTitle(cols),
               pushed |-> [j \in 1..Len(incoming) |-> 0]]
    IN  derefCols(mergeColumns(resolveColumns(m0, incRefCols, 1), incRefCols, 1))

----------------------------------------------------------------------------
(* The document *)

\* a .card element of the card with this id, and the n-th placeholder
\* element that Dnd.beginCardDrag created
CardEl(id) == [card |-> id, ph |-> 0]

PlaceholderEl(n) == [card |-> "", ph |-> n]

\* Dnd.cardDrag = null
Null == [pointerId |-> 0, cardEl |-> "", started |-> FALSE, timerId |-> 0,
         isTouch |-> FALSE, ghost |-> FALSE, placeholder |-> 0]

\* no element
NoEl == [id |-> "", isArchive |-> FALSE, children |-> <<>>]

\* Dnd.colDrag = null
NullCol == [pointerId |-> 0, srcEl |-> NoEl, placeholder |-> 0]

\* the Dnd object as declared
IdleDnd == [cardDrag |-> Null, colDrag |-> NullCol, autoScrollInterval |-> FALSE,
            suppressClick |-> FALSE]

\* the children of the .cards list of every column UI.createColumnElement builds
cardLists(cols) ==
    [i \in 1..Len(cols) |->
        [id |-> cols[i].id, isArchive |-> cols[i].isArchive,
         children |-> [j \in 1..Len(cols[i].cards) |-> CardEl(cols[i].cards[j].id)]]]

\* UI.renderBoard: the board element is emptied and rebuilt from Store.state;
\* ghosts (children of document.body) and document listeners stay
renderBoard(d, cols) == [d EXCEPT !.lists = cardLists(cols), !.dragging = {}]

EmptyDocument == [lists |-> <<>>, dragging |-> {}, ghosts |-> 0,
                  listening |-> FALSE, created |-> 0, editor |-> ""]

NoTimers == [made |-> 0, longPress |-> {}, clickReset |-> 0]

NoGesture == [n |-> 0, calls |-> <<>>, far |-> FALSE, fired |-> FALSE, pre |-> <<>>,
              isTouch |-> FALSE, beyond |-> FALSE, quiet |-> TRUE]

\* el.closest(".cards"): the index of the list that holds el, 0 if none
ListOf(d, el) ==
    FirstIndex(d.lists, LAMBDA l : \E i \in 1..Len(l.children) : l.children[i] = el)

\* el.remove()
removeEl(d, el) ==
    [d EXCEPT !.lists =
        [i \in 1..Len(d.lists) |->
            [d.lists[i] EXCEPT !.children = SelectSeq(d.lists[i].children, LAMBDA x : x # el)]]]

\* list.insertBefore(el, ref), ref a child of the list; a node inserted
\* before itself stays where it is
insertBefore(d, list, el, ref) ==
    IF el = ref THEN d
    ELSE LET d1 == removeEl(d, el)
             ch == d1.lists[list].children
             k == FirstIndex(ch, LAMBDA x : x = ref)
         IN  [d1 EXCEPT !.lists[list].children = InsertAt(ch, k - 1, el)]

\* list.appendChild(el)
appendChild(d, list, el) ==
    LET d1 == removeEl(d, el)
    IN  [d1 EXCEPT !.lists[list].children = Append(@, el)]

\* ref.after(el), el a new element; nothing to see when ref is in no list
after(d, ref, el) ==
    LET list == ListOf(d, ref)
    IN  IF list = 0 THEN d
        ELSE LET ch == d.lists[list].children
                 k == FirstIndex(ch, LAMBDA x : x = ref)
             IN  [d EXCEPT !.lists[list].children = InsertAt(ch, k, el)]

----------------------------------------------------------------------------
(* The board model: Store operations on a small board *)

ColIdArgs == {"A", "archive", "nocol"}
CardIdArgs == {"k1", "k3", "nocard"}
IndexArgs == -1..3

InitBoard ==
    << Column("A", "Todo", FALSE, FALSE,
              <<AddedCard("k1", "t1", 100, 1), Card("k2", "t2")>>),
       Column("archive", "Archive", FALSE, TRUE, <<Card("k3", "t3")>>) >>

NoEv == [op |-> "init", cardId |-> "", fromColId |-> "", toColId |-> "",
         toIndex |-> 0, pre |-> <<>>, preSeq |-> 0, ok |-> TRUE]

Init ==
    /\ state = InitBoard
    /\ seqKey = 1
    /\ now = 500
    /\ suppressEchoUntil = 0
    /\ useFirebase = FALSE
    /\ localStore = <<InitBoard>>
    /\ remoteStore = <<>>
    /\ file = <<>>
    /\ lastSaveAt = -1
    /\ Dnd = IdleDnd
    /\ dom = renderBoard(EmptyDocument, state)
    /\ timers = NoTimers
    /\ gesture = NoGesture
    /\ ev = NoEv

\* the number of operations the last handler's record counts, 0 if it counts none
OpCount == IF "n" \in DOMAIN ev THEN ev.n ELSE 0

\* Store.moveCard and the save it issues
moveCardCall(cardId, fromColId, toColId, toIndex, ok) ==
    /\ ev' = [op |-> "moveCard", cardId |-> cardId, fromColId |-> fromColId,
              toColId |-> toColId, toIndex |-> toIndex, pre |-> state,
              preSeq |-> seqKey, ok |-> ok]
    /\ IF moveCardApplies(state, cardId, fromColId, toColId)
       THEN /\ seqKey < MaxSeq
            /\ state' = moveCard(state, cardId, fromColId, toColId, toIndex,
                                 nowIso, ClientId, nextSeq)
            /\ seqKey' = nextSeq
            /\ saveState(state', ok)
       ELSE /\ ok
            /\ UNCHANGED <<state, seqKey, suppressEchoUntil, localStore, remoteStore,
                           lastSaveAt>>
    /\ UNCHANGED <<now, useFirebase, file>>

\* a call of Store.moveCard
MoveCard(cardId, fromColId, toColId, toIndex, ok) ==
    /\ moveCardCall(cardId, fromColId, toColId, toIndex, ok)
    /\ UNCHANGED dndVars

\* the clock advances
Tick(d) ==
    /\ now + d <= MaxNow
    /\ now' = now + d
    /\ UNCHANGED <<state, seqKey, suppressEchoUntil, useFirebase, localStore,
                   remoteStore, file, lastSaveAt, ev>>
    /\ UNCHANGED dndVars

Next ==
    \/ \E c \in CardIdArgs, f \in ColIdArgs, t \in ColIdArgs, i \in IndexArgs,
          ok \in (IF useFirebase THEN BOOLEAN ELSE {TRUE}) : MoveCard(c, f, t, i, ok)

Spec == Init /\ [][Next]_vars

----------------------------------------------------------------------------
(* Claims about Store.moveCard, checked under Spec *)

ColCount(col, id) == Cardinality({i \in 1..Len(col.cards) : col.cards[i].id = id})

\* the arguments of the last moveCard call name two columns of the board it
\* saw and a card of the source column
EvMoved ==
    /\ ev.op = "moveCard"
    /\ \E f \in 1..Len(ev.pre) :
          /\ ev.pre[f].id = ev.fromColId
          /\ \A j \in 1..(f - 1) : ev.pre[j].id # ev.fromColId
          /\ ColCount(ev.pre[f], ev.cardId) > 0
    /\ \E t \in 1..Len(ev.pre) : ev.pre[t].id = ev.toColId

EvTarget == CHOOSE t \in 1..Len(state) :
                state[t].id = ev.toColId /\ \A j \in 1..(t - 1) : state[j].id # ev.toColId

EvSource == CHOOSE f \in 1..Len(state) :
                state[f].id = ev.fromColId /\ \A j \in 1..(f - 1) : state[j].id # ev.fromColId

\* C1: a moveCard call, whatever its arguments, leaves the number of cards
\* carrying each id unchanged; when it moves the card, the card is in the
\* target column exactly once, in the source column no more (unless source
\* and target are the same), and the other columns keep their cards.
C1_MoveConservesCards ==
    ev.op = "moveCard" =>
        /\ \A id \in CardIds(state) \cup CardIds(ev.pre) \cup {ev.cardId} :
              CountId(state, id) = CountId(ev.pre, id)
        /\ Len(state) = Len(ev.pre)
        /\ EvMoved =>
              /\ ColCount(state[EvTarget], ev.cardId) = 1
              /\ EvSource # EvTarget => ColCount(state[EvSource], ev.cardId) = 0
              /\ \A c \in 1..Len(state) :
                    c \notin {EvSource, EvTarget} => state[c] = ev.pre[c]

C1_Witness ==
    /\ EvMoved
    /\ ev.fromColId = ev.toColId
    /\ ev.toIndex > Len(ev.pre[EvTarget].cards)
    /\ state # ev.pre

\* C9: a moveCard call that moves the card puts it last in the target column
\* when toIndex is negative or greater than the target's length after the
\* removal, and at index toIndex otherwise.
C9_IndexClamping ==
    EvMoved =>
        LET cards == state[EvTarget].cards
            len == Len(cards) - 1
        IN  IF ev.toIndex < 0 \/ ev.toIndex > len
            THEN cards[Len(cards)].id = ev.cardId
            ELSE cards[ev.toIndex + 1].id = ev.cardId

C9_Witness ==
    /\ EvMoved
    /\ ev.toIndex < 0
    /\ Len(state[EvTarget].cards) >= 2
    /\ state[EvTarget].cards[Len(state[EvTarget].cards)].id = ev.cardId

\* C10: a moveCard call whose fromColId or toColId names no column, or
\* whose card is not in the source column, changes neither the board nor
\* the sequence counter.
C10_SilentNoOp ==
    (ev.op = "moveCard" /\ ~EvMoved) => (state = ev.pre /\ seqKey = ev.preSeq)

C10_Witness ==
    /\ ev.op = "moveCard"
    /\ ~EvMoved
    /\ ev.fromColId = "A"
    /\ ev.toColId = "archive"
    /\ ev.cardId = "k3"
    /\ CountId(state, "k3") = 1

----------------------------------------------------------------------------
(* The echo guard: local saves, the clock and the subscribe handler *)

\* App.promptDeleteOrArchive with the choice "archive"
ArchiveCard(cardId, ok) ==
    LET found == findCard(state, cardId)
        archiveCol == FirstIndex(state, LAMBDA c : c.isArchive)
        archiveColEl == FirstIndex(dom.lists, LAMBDA l : l.isArchive)
    IN  /\ found[1] # 0
        /\ archiveCol # 0
        /\ state[found[1]].id # state[archiveCol].id
        /\ moveCardCall(cardId, state[found[1]].id, state[archiveCol].id, -1, ok)
        /\ dom' = IF ListOf(dom, CardEl(cardId)) # 0 /\ archiveColEl # 0
                  THEN appendChild(dom, archiveColEl, CardEl(cardId))
                  ELSE dom
        /\ UNCHANGED <<Dnd, timers, gesture>>

\* Store.state when it is an object that has no columns array
NoColumns == << [columns |-> FALSE] >>

\* the objects a snapshot can be that have no columns array (WrongShape)
BadSnapshots == { << <<>>, <<>>, <<>> >> }

\* the handler Store.startRealtime subscribes; incoming: <<>> for a value that
\* is no object, an object without columns array, else <<columns>>.  With
\* such an object in Store.state UI.renderBoard empties the board element
\* and throws at Store.state.columns
SubscribeDeliver(incoming) ==
    /\ useFirebase
    /\ ev' = [op |-> "deliver", pre |-> state, at |-> now, incoming |-> incoming,
              n |-> OpCount]
    /\ IF shouldIgnore \/ incoming = <<>>
       THEN UNCHANGED <<state, dom>>
       ELSE IF incoming \in BadSnapshots
       THEN /\ state' = NoColumns
            /\ dom' = [dom EXCEPT !.lists = <<>>, !.dragging = {}]
       ELSE state' = incoming[1] /\ dom' = renderBoard(dom, state')
    /\ UNCHANGED <<Dnd, timers, gesture>>
    /\ UNCHANGED <<seqKey, now, suppressEchoUntil, useFirebase, localStore,
                   remoteStore, file, lastSaveAt>>

\* the board another device wrote: k1 deleted there, k4 added
RemoteBoard ==
    << Column("A", "Todo", FALSE, FALSE,
              <<Card("k2", "t2"), AddedCard("k4", "t4", 50, 1)>>),
       Column("archive", "Archive", FALSE, TRUE, <<Card("k3", "t3")>>) >>

DeliveredSnapshots == { <<>>, <<RemoteBoard>>, <<InitBoard>> }

\* the remote store holds a board this device saved
OwnWriteStored == lastSaveAt >= 0 /\ remoteStore \notin {<<>>, <<InitBoard>>}

\* the subscription delivers the board this device saved back to it, at any
\* time after the save
EchoDeliver ==
    /\ OwnWriteStored
    /\ SubscribeDeliver(remoteStore)

InitSync ==
    /\ state = InitBoard
    /\ seqKey = 1
    /\ now = 0
    /\ suppressEchoUntil = 0
    /\ useFirebase = TRUE
    /\ localStore = <<InitBoard>>
    /\ remoteStore = <<InitBoard>>
    /\ file = <<>>
    /\ lastSaveAt = -1
    /\ Dnd = IdleDnd
    /\ dom = renderBoard(EmptyDocument, state)
    /\ timers = NoTimers
    /\ gesture = NoGesture
    /\ ev = NoEv

NextSync ==
    \/ \E c \in CardIdArgs \cup {"k2"}, ok \in BOOLEAN : ArchiveCard(c, ok)
    \/ Tick(TickMs)
    \/ \E incoming \in DeliveredSnapshots : SubscribeDeliver(incoming)
    \/ EchoDeliver

SpecSync == InitSync /\ [][NextSync]_vars

\* C5: a snapshot delivered to the subscribe handler less than 900ms after
\* the latest Store.saveState call (remote backend configured) leaves
\* Store.state as it was.
C5_EchoSuppressed ==
    (ev.op = "deliver" /\ lastSaveAt >= 0 /\ ev.at < lastSaveAt + 900)
        => state = ev.pre

C5_Witness ==
    /\ ev.op = "deliver"
    /\ lastSaveAt > 0
    /\ ev.at = lastSaveAt + 500
    /\ ev.incoming = <<RemoteBoard>>
    /\ state # RemoteBoard

\* C6: a snapshot delivered when no mute window is active is merged, so a
\* card that was on the board and is absent from the snapshot is still on
\* the board afterwards.
C6_DeliveredIsMerged ==
    (ev.op = "deliver" /\ ev.incoming # <<>>
        /\ (lastSaveAt < 0 \/ ev.at >= lastSaveAt + 900))
        => CardIds(ev.pre) \subseteq CardIds(state)

----------------------------------------------------------------------------
(* Import: a board, a file, and up to MaxImports imports of that file *)

MaxImports == 2          \* imports of the file in one run
MaxSnapCols == 2         \* columns of a generated file
MaxColCards == 2         \* cards of one column of a generated file
MaxSnapCards == 3        \* cards of a generated file
MaxStamp == 3            \* the latest instant of a generated timestamp

\* What a store holds: <<>> nothing, <<columns>> the JSON of a board, and
\* two values that are no board: a text JSON.parse rejects, and the JSON of
\* a truthy value Store.validateState rejects.
Unparseable == << <<>>, <<>> >>

WrongShape == << <<>>, <<>>, <<>> >>

\* Store.validateState on a loaded value: it returns (TRUE) or throws (FALSE)
validateState(data) == Len(data) = 1

\* App.importJSON returning at `choice === "cancel" || !choice` only for
\* the empty choice
importProceedsOnCancel(f, choice) ==
    f # <<>> /\ f # Unparseable /\ validateState(f) /\ choice # ""

\* App.importJSON gets as far as applying the choice: a file was selected,
\* JSON.parse and Store.validateState did not throw, and the choice is
\* neither "cancel" nor empty
importProceeds(f, choice) ==
    f # <<>> /\ f # Unparseable /\ validateState(f) /\ choice \notin {"cancel", ""}

\* App.importJSON with the answer given to UI.showImportChoice; ok: whether
\* the remote save succeeds
ImportJSON(choice, ok) ==
    /\ ev' = [op |-> "import", choice |-> choice, pre |-> state,
              prevOp |-> ev.op,
              prevChoice |-> IF ev.op = "import" THEN ev.choice ELSE "",
              n |-> OpCount + 1]
    /\ IF ~importProceeds(file, choice)
       THEN UNCHANGED <<state, suppressEchoUntil, localStore, remoteStore, lastSaveAt, dom>>
       ELSE /\ state' = IF choice = "replace" THEN file[1]
                        ELSE IF choice = "merge" THEN importMerge(state, file[1])
                        ELSE state
            /\ saveState(state', ok)
            /\ dom' = renderBoard(dom, state')
    /\ UNCHANGED <<Dnd, timers, gesture>>
    /\ UNCHANGED <<seqKey, now, useFirebase, file>>

\* a card with the given metadata
MetaCard(id, title, ca, lc, by, sq, cca, pca) ==
    [Card(id, title) EXCEPT !.createdAt = ca, !.lastChanged = lc,
        !.lastChangedBy = by, !.seq = sq,
        !.contentChangedAt = cca, !.positionChangedAt = pca]

\* the boards the imports start from: k1 (with or without metadata) in A or
\* in the archive, k2 and k5 around it
LocalK1 == { Card("k1", "t1"), AddedCard("k1", "t1", 2, 2) }

LocalBoards ==
    { << Column("A", "Todo", FALSE, FALSE, <<k1, Card("k2", "t2")>>),
         Column("B", "Done", TRUE, FALSE, <<Card("k5", "t5")>>),
         Column("archive", "Archive", FALSE, TRUE, <<>>) >> : k1 \in LocalK1 }
    \cup
    { << Column("A", "Todo", FALSE, FALSE, <<Card("k2", "t2")>>),
         Column("B", "Done", TRUE, FALSE, <<Card("k5", "t5")>>),
         Column("archive", "Archive", FALSE, TRUE, <<k1>>) >> : k1 \in LocalK1 }

\* the cards of a file: copies of k1 that are older, moved later, edited
\* later, or both, and a card the board does not have
FileCards ==
    { MetaCard("k1", "old", 1, 1, 1, 1, 1, 1),
      MetaCard("k1", "moved", 1, MaxStamp, 1, 1, 1, MaxStamp),
      MetaCard("k1", "pos", 1, 1, 1, 1, 1, MaxStamp),
      MetaCard("k1", "edited", 2, MaxStamp, 3, 3, MaxStamp, 2),
      Card("k3", "t3") }

\* the columns of a file: matched by id, matched by title, matched by
\* neither, and one whose title matches the previous one
FileHeaders ==
    { <<"A", "Todo">>, <<"X", " done ">>, <<"Y", "New">>, <<"Z", " NEW">> }

SeqsUpTo(S, n) == UNION { [1..k -> S] : k \in 0..n }

FileColumns ==
    { Column(h[1], h[2], FALSE, FALSE, cs) :
        h \in FileHeaders, cs \in SeqsUpTo(FileCards, MaxColCards) }

Files ==
    { f \in SeqsUpTo(FileColumns, MaxSnapCols) :
        /\ Len(f) >= 1
        /\ NumCards(f) <= MaxSnapCards
        /\ \A i, j \in 1..Len(f) : i # j => f[i].id # f[j].id }

\* files of one column (matched by id) holding one copy of k1 whose
\* metadata ranges over absent, unparseable and every instant up to
\* MaxStamp, with tags and due absent
LwwCards ==
    { [MetaCard("k1", "inc", ca, lc, by, sq, cca, 0) EXCEPT !.tags = 0, !.due = 0] :
        ca \in {0, 1}, lc \in 0..MaxStamp, by \in 0..MaxStamp,
        sq \in {-1} \cup 1..MaxStamp, cca \in -1..MaxStamp }

LwwFiles == { << Column("A", "Todo", FALSE, FALSE, <<c>>) >> : c \in LwwCards }

\* files of one column (matched by id) holding one copy of k1 that another
\* device edited last (seq 3) at lc, with its content and position stamps
\* ranging over every instant up to MaxStamp
StampedFiles ==
    { << Column("A", "Todo", FALSE, FALSE,
                <<MetaCard("k1", "late", 1, lc, 1, 3, cca, pca)>>) >> :
        lc \in 1..MaxStamp, cca \in 1..MaxStamp, pca \in 1..MaxStamp }

InitMerge ==
    /\ state \in LocalBoards
    /\ file \in { <<f>> : f \in Files \cup LwwFiles \cup StampedFiles }
    /\ seqKey = 2
    /\ now = 500
    /\ suppressEchoUntil = 0
    /\ useFirebase = FALSE
    /\ localStore = <<state>>
    /\ remoteStore = <<>>
    /\ lastSaveAt = -1
    /\ Dnd = IdleDnd
    /\ dom = renderBoard(EmptyDocument, state)
    /\ timers = NoTimers
    /\ gesture = NoGesture
    /\ ev = NoEv

NextMerge ==
    \E choice \in {"merge", "replace", "cancel"} :
        /\ ev.op = "import" => ev.n < MaxImports
        /\ ImportJSON(choice, TRUE)

SpecMerge == InitMerge /\ [][NextMerge]_vars

UniqueIds(cols) == \A id \in CardIds(cols) : CountId(cols, id) = 1

EvMerged == ev.op = "import" /\ ev.choice = "merge"

\* C2: a merge of a file whose card ids are unique into a board whose card
\* ids are unique leaves every card id exactly once on the board and drops
\* none of the ids the board had.
C2_MergeKeepsIdsUnique ==
    (EvMerged /\ UniqueIds(ev.pre) /\ UniqueIds(file[1]))
        => (UniqueIds(state) /\ CardIds(ev.pre) \subseteq CardIds(state))

\* the content fields of a card, and those an overwrite takes from it
Content(c) == <<c.title, c.description, c.tags, c.due, c.reminder>>

TakenContent(c) ==
    <<c.title, c.description, IF c.tags >= 1 THEN c.tags ELSE 1,
      IF c.due >= 2 THEN c.due ELSE 1, c.reminder>>

\* the content key (max(contentChangedAt, lastChanged, createdAt), seq,
\* lastChangedBy), an absent seq counting below every seq
ContentKey(c) ==
    <<Max3(timeVal(c.contentChangedAt), timeVal(c.lastChanged), timeVal(c.createdAt)),
      IF c.seq >= 0 THEN c.seq ELSE -1, c.lastChangedBy>>

LexGreater(a, b) ==
    \/ a[1] > b[1]
    \/ a[1] = b[1] /\ a[2] > b[2]
    \/ a[1] = b[1] /\ a[2] = b[2] /\ a[3] > b[3]

CardOf(cols, id) == AllCards(cols)[FirstIndex(AllCards(cols), LAMBDA c : c.id = id)]

CopiesOf(cols, id) == {AllCards(cols)[i] : i \in {j \in 1..NumCards(cols) : AllCards(cols)[j].id = id}}

\* C3: in a merge (card ids unique on the board and in the file) a card on
\* both sides takes the incoming content fields when the incoming content
\* key is strictly greater in lexicographic order, and keeps its own
\* otherwise; the only other copy the board can hold is the incoming card.
C3_ContentLastWriterWins ==
    (EvMerged /\ UniqueIds(ev.pre) /\ UniqueIds(file[1])) =>
        \A id \in CardIds(ev.pre) \cap CardIds(file[1]) :
            LET ex == CardOf(ev.pre, id)
                inc == CardOf(file[1], id)
                expected == IF LexGreater(ContentKey(inc), ContentKey(ex))
                            THEN TakenContent(inc) ELSE Content(ex)
            IN  /\ \E c \in CopiesOf(state, id) : Content(c) = expected
                /\ \A c \in CopiesOf(state, id) : Content(c) = expected \/ c = inc

\* the later timestamp won against the higher sequence number
C3_Witness ==
    /\ EvMerged
    /\ UniqueIds(ev.pre) /\ UniqueIds(file[1]) /\ UniqueIds(state)
    /\ "k1" \in CardIds(ev.pre) \cap CardIds(file[1])
    /\ ContentKey(CardOf(file[1], "k1"))[1] > ContentKey(CardOf(ev.pre, "k1"))[1]
    /\ ContentKey(CardOf(file[1], "k1"))[2] < ContentKey(CardOf(ev.pre, "k1"))[2]
    /\ CardOf(state, "k1").title = "inc"
    /\ CardOf(ev.pre, "k1").title = "t1"

\* C4: merging the same file a second time leaves the board as the first
\* merge left it.
C4_MergeIdempotent ==
    (EvMerged /\ ev.prevChoice = "merge") => state = ev.pre

----------------------------------------------------------------------------
(* The card drag recogniser: Dnd *)

MaxGestures == 2         \* presses accepted in one run
MaxDomCols == 4          \* children of the board element
MaxSlot == 3             \* the deepest slot of a list a pointer event names

touchCancelThreshold == 10   \* Dnd.touchCancelThreshold

\* pointer 1 is the mouse, pointer 2 a finger
PointerIds == {1, 2}

PointerType(p) == IF p = 1 THEN "mouse" ELSE "touch"

\* <<clientX - startX, clientY - startY>> of a pointer event: no movement,
\* within 6px, beyond 6px and within 8px, beyond 8px and within the cancel
\* threshold on both axes, beyond the cancel threshold on one axis
Displacements == { <<0, 0>>, <<4, 4>>, <<4, 5>>, <<-9, 0>>, <<0, -11>> }

Abs(x) == IF x < 0 THEN -x ELSE x

\* dist > threshold with every move at least one pixel long
overThresholdAnyMove(dx, dy, pointerType) == dx * dx + dy * dy > 0

\* Math.hypot(dx, dy) > threshold, threshold 6 for the mouse and 8 otherwise
overThreshold(dx, dy, pointerType) ==
    LET threshold == IF pointerType = "mouse" THEN 6 ELSE 8
    IN  dx * dx + dy * dy > threshold * threshold

\* the touch cancel test with both axes required
touchCancelsBothAxes(dx, dy) ==
    Abs(dx) > touchCancelThreshold /\ Abs(dy) > touchCancelThreshold

\* dx0 > Dnd.touchCancelThreshold || dy0 > Dnd.touchCancelThreshold
touchCancels(dx, dy) ==
    Abs(dx) > touchCancelThreshold \/ Abs(dy) > touchCancelThreshold

\* the guard of the document listeners, for any pointer
tracksAnyPointer(cd, p) == cd # Null

\* the guard of the document listeners: a gesture is open and p is its pointer
tracksPointer(cd, p) == cd # Null /\ p = cd.pointerId

\* clearTimeout(id); id 0 is the null timer id
clearTimeout(t, id) == [t EXCEPT !.longPress = @ \ {id}]

\* Dnd.beginCardDrag on the Dnd object D and the document d
beginCardDrag(D, d) ==
    LET cd == D.cardDrag
        n == d.created + 1
        d1 == [d EXCEPT !.ghosts = @ + 1, !.created = n,
                        !.dragging = @ \cup {cd.cardEl}]
    IN  [Dnd |-> [D EXCEPT !.cardDrag = [cd EXCEPT !.started = TRUE, !.ghost = TRUE,
                                                   !.placeholder = n],
                           !.suppressClick = TRUE,
                           !.autoScrollInterval = TRUE],
         dom |-> after(d1, CardEl(cd.cardEl), PlaceholderEl(n))]

\* Dnd.onCardPointerMove: list is the index of the card list under the
\* pointer (0: none), slot the number of its .card:not(.dragging) elements
\* whose midpoint is not below the pointer
onCardPointerMove(D, d, list, slot) ==
    LET cd == D.cardDrag
        ph == PlaceholderEl(cd.placeholder)
    IN  IF cd = Null \/ ~cd.started \/ list = 0 THEN d
        ELSE LET siblings == SelectSeq(d.lists[list].children,
                                       LAMBDA x : x.card \notin d.dragging)
             IN  IF slot < Len(siblings)
                 THEN insertBefore(d, list, ph, siblings[slot + 1])
                 ELSE appendChild(d, list, ph)

\* the index of the placeholder among the children of its list, counted from 1
dropIndexFromOne(d, toList, ph) ==
    FirstIndex(d.lists[toList].children, LAMBDA x : x = ph)

\* [...toList.children].indexOf(placeholder)
dropIndex(d, toList, ph) ==
    FirstIndex(d.lists[toList].children, LAMBDA x : x = ph) - 1

\* pointerdown on the card element of card
startCardPotentialDrag(p, button, interactive, card) ==
    /\ ListOf(dom, CardEl(card)) # 0
    /\ ev' = [op |-> "pointerdown", pointerId |-> p]
    /\ IF (PointerType(p) = "mouse" /\ button # 0) \/ interactive
       THEN UNCHANGED dndVars
       ELSE LET isTouch == PointerType(p) # "mouse"
                id == timers.made + 1
            IN  /\ Dnd' = [Dnd EXCEPT !.cardDrag =
                              [pointerId |-> p, cardEl |-> card, started |-> FALSE,
                               timerId |-> IF isTouch THEN id ELSE 0,
                               isTouch |-> isTouch, ghost |-> FALSE,
                               placeholder |-> 0]]
                /\ timers' = IF isTouch
                             THEN [timers EXCEPT !.made = id, !.longPress = @ \cup {id}]
                             ELSE timers
                /\ dom' = [dom EXCEPT !.listening = TRUE]
                /\ gesture' = [n |-> gesture.n + 1, calls |-> <<>>, far |-> FALSE,
                               fired |-> FALSE, pre |-> state, isTouch |-> isTouch,
                               beyond |-> FALSE, quiet |-> ~Dnd.suppressClick]
    /\ UNCHANGED storeVars

\* pointermove on the document, at (startX + x, startY + y)
onCardPotentialMove(p, x, y, list, slot) ==
    /\ dom.listening
    /\ ev' = [op |-> "pointermove", pointerId |-> p, x |-> x, y |-> y]
    /\ LET cd == Dnd.cardDrag
       IN  IF ~tracksPointer(cd, p)
           THEN UNCHANGED dndVars
           ELSE IF ~cd.started /\ cd.isTouch /\ touchCancels(x, y)
           THEN /\ timers' = clearTimeout(timers, cd.timerId)
                /\ dom' = [dom EXCEPT !.listening = FALSE]
                /\ Dnd' = [Dnd EXCEPT !.cardDrag = Null]
                /\ gesture' = [gesture EXCEPT
                                  !.far = @ \/ x * x + y * y > 36,
                                  !.beyond = @ \/ (~cd.started /\ (x > 10 \/ x < -10
                                                                 \/ y > 10 \/ y < -10))]
           ELSE LET begins == overThreshold(x, y, PointerType(p))
                              /\ ~cd.started /\ ~cd.isTouch
                    b == IF begins THEN beginCardDrag(Dnd, dom)
                         ELSE [Dnd |-> Dnd, dom |-> dom]
                IN  /\ timers' = IF begins THEN clearTimeout(timers, cd.timerId)
                                 ELSE timers
                    /\ Dnd' = b.Dnd
                    /\ dom' = IF b.Dnd.cardDrag.started
                              THEN onCardPointerMove(b.Dnd, b.dom, list, slot)
                              ELSE b.dom
                    /\ gesture' = [gesture EXCEPT
                                      !.far = @ \/ x * x + y * y > 36,
                                      !.beyond = @ \/ (~cd.started /\ (x > 10 \/ x < -10
                                                                     \/ y > 10 \/ y < -10))]
    /\ UNCHANGED storeVars

\* pointerup or pointercancel (kind) on the document; ok: whether the remote
\* save succeeds
onCardDragEnd(p, kind, ok) ==
    /\ dom.listening
    /\ ev' = [op |-> kind, pointerId |-> p, pre |-> state,
              preDnd |-> Dnd, preDom |-> dom]
    /\ LET cd == Dnd.cardDrag
           cardEl == CardEl(cd.cardEl)
           placeholder == PlaceholderEl(cd.placeholder)
           toList == IF cd.started THEN ListOf(dom, placeholder) ELSE 0
           fromList == ListOf(dom, cardEl)
           fromColId == IF fromList = 0 THEN "" ELSE dom.lists[fromList].id
           toColId == IF toList = 0 THEN "" ELSE dom.lists[toList].id
           toIndex == IF toList = 0 THEN -1 ELSE dropIndex(dom, toList, placeholder)
           d1 == IF toList # 0 THEN insertBefore(dom, toList, cardEl, placeholder)
                 ELSE dom
           d2 == IF cd.started
                 THEN removeEl([d1 EXCEPT !.dragging = @ \ {cd.cardEl},
                                          !.ghosts = @ - 1], placeholder)
                 ELSE d1
       IN  IF ~tracksPointer(cd, p)
           THEN UNCHANGED <<dndVars, state, seqKey, suppressEchoUntil, localStore,
                            remoteStore, lastSaveAt>>
           ELSE /\ IF toList # 0 /\ moveCardApplies(state, cd.cardEl, fromColId, toColId)
                   THEN /\ state' = moveCard(state, cd.cardEl, fromColId, toColId,
                                             toIndex, nowIso, ClientId, nextSeq)
                        /\ seqKey' = nextSeq
                        /\ saveState(state', ok)
                   ELSE UNCHANGED <<state, seqKey, suppressEchoUntil, localStore,
                                    remoteStore, lastSaveAt>>
                /\ dom' = [d2 EXCEPT !.listening = FALSE]
                /\ Dnd' = [Dnd EXCEPT !.cardDrag = Null, !.autoScrollInterval = FALSE]
                /\ timers' = [clearTimeout(timers, cd.timerId) EXCEPT !.clickReset = @ + 1]
                /\ gesture' = [gesture EXCEPT !.calls =
                                  IF toList # 0
                                  THEN Append(@, <<cd.cardEl, fromColId, toColId, toIndex>>)
                                  ELSE @]
    /\ UNCHANGED <<now, useFirebase, file>>

\* the long-press callback that startCardPotentialDrag scheduled
LongPressFire(id) ==
    /\ id \in timers.longPress
    /\ ev' = [op |-> "longpress", pointerId |-> 0]
    /\ timers' = clearTimeout(timers, id)
    /\ IF Dnd.cardDrag # Null /\ ~Dnd.cardDrag.started
       THEN /\ Dnd' = beginCardDrag(Dnd, dom).Dnd
            /\ dom' = beginCardDrag(Dnd, dom).dom
       ELSE UNCHANGED <<Dnd, dom>>
    /\ gesture' = [gesture EXCEPT !.fired = TRUE]
    /\ UNCHANGED storeVars

\* the callback that onCardDragEnd scheduled to re-enable clicks
ClickResetFire ==
    /\ timers.clickReset > 0
    /\ ev' = [op |-> "clickreset", pointerId |-> 0]
    /\ timers' = [timers EXCEPT !.clickReset = @ - 1]
    /\ Dnd' = [Dnd EXCEPT !.suppressClick = FALSE]
    /\ UNCHANGED <<dom, gesture>>
    /\ UNCHANGED storeVars

\* a board click listener that acts only while clicks are suppressed
opensEditorWhenSuppressed(D) == D.suppressClick

\* the board click listener goes on when Dnd.suppressClick is not set
opensEditor(D) == ~D.suppressClick

\* the click the page dispatches on the card after the pointerup of the
\* pointer that pressed it (data-action edit-card, not on a link or button);
\* the editor is a modal dialog
onBoardClick ==
    /\ ev.op = "pointerup"
    /\ ev.preDnd.cardDrag # Null
    /\ ev.pointerId = ev.preDnd.cardDrag.pointerId
    /\ dom.editor = ""
    /\ LET cardId == ev.preDnd.cardDrag.cardEl
       IN  /\ ev' = [op |-> "click", pointerId |-> ev.pointerId, card |-> cardId,
                     started |-> ev.preDnd.cardDrag.started,
                     suppressed |-> Dnd.suppressClick]
           /\ dom' = IF opensEditor(Dnd) /\ findCard(state, cardId) # <<0, 0>>
                     THEN [dom EXCEPT !.editor = cardId]
                     ELSE dom
    /\ UNCHANGED <<Dnd, timers, gesture>>
    /\ UNCHANGED storeVars

DndBoard ==
    << Column("A", "Todo", FALSE, FALSE, <<Card("k1", "t1"), Card("k2", "t2")>>),
       Column("B", "Done", TRUE, FALSE, <<Card("k5", "t5")>>),
       Column("archive", "Archive", FALSE, TRUE, <<Card("k3", "t3")>>) >>

InitDnd ==
    /\ state = DndBoard
    /\ seqKey = 1
    /\ now = 500
    /\ suppressEchoUntil = 0
    /\ useFirebase = FALSE
    /\ localStore = <<DndBoard>>
    /\ remoteStore = <<>>
    /\ file = <<>>
    /\ lastSaveAt = -1
    /\ Dnd = IdleDnd
    /\ dom = renderBoard(EmptyDocument, state)
    /\ timers = NoTimers
    /\ gesture = NoGesture
    /\ ev = NoEv

\* Of the inputs of a pointermove that the handler does not read in the
\* current state, one value is enough: the position under a foreign pointer
\* or an armed finger, the displacement once the drag has started; a slot
\* counts elements of the list under the pointer.
MoveInputRead(p, v, list, slot) ==
    LET cd == Dnd.cardDrag
        own == cd # Null /\ p = cd.pointerId
    IN  /\ (~own \/ cd.started) => v = <<0, 0>>
        /\ (~own \/ (~cd.started /\ cd.isTouch)) => list = 0
        /\ list = 0 => slot = 0
        /\ list # 0 => slot <= Len(dom.lists[list].children)

\* the events of the page; a press is delivered only while no card gesture
\* is open (the page emits no overlapping presses) and the modal editor is
\* closed
NextDnd ==
    \/ \E p \in PointerIds, button \in {0, 2}, interactive \in BOOLEAN,
          card \in CardIds(state) :
          /\ Dnd.cardDrag = Null
          /\ dom.editor = ""
          /\ gesture.n < MaxGestures
          /\ seqKey < MaxSeq
          /\ startCardPotentialDrag(p, button, interactive, card)
    \/ \E p \in PointerIds, v \in Displacements,
          list \in 0..Len(dom.lists), slot \in 0..MaxSlot :
          /\ MoveInputRead(p, v, list, slot)
          /\ onCardPotentialMove(p, v[1], v[2], list, slot)
    \/ \E p \in PointerIds, kind \in {"pointerup", "pointercancel"} :
          onCardDragEnd(p, kind, TRUE)
    \/ \E id \in timers.longPress : LongPressFire(id)
    \/ ClickResetFire
    \/ onBoardClick

SpecDnd == InitDnd /\ [][NextDnd]_vars

\* the last event was a pointerup or pointercancel of the tracked pointer
EvEnded ==
    /\ ev.op \in {"pointerup", "pointercancel"}
    /\ ev.preDnd.cardDrag # Null
    /\ ev.pointerId = ev.preDnd.cardDrag.pointerId

\* where an element stood in the document before the last event: the index
\* of its list (0: none) and its 0-based index among the list's children
EvListOf(el) ==
    IF \E l \in 1..Len(ev.preDom.lists) :
          \E i \in 1..Len(ev.preDom.lists[l].children) : ev.preDom.lists[l].children[i] = el
    THEN CHOOSE l \in 1..Len(ev.preDom.lists) :
          \E i \in 1..Len(ev.preDom.lists[l].children) : ev.preDom.lists[l].children[i] = el
    ELSE 0

EvChildIndex(el) ==
    (CHOOSE i \in 1..Len(ev.preDom.lists[EvListOf(el)].children) :
        ev.preDom.lists[EvListOf(el)].children[i] = el) - 1

\* the last event released a started mouse drag whose placeholder stood in
\* the list of another column than the card's
EvCrossColumnDrop ==
    /\ EvEnded
    /\ ev.op = "pointerup"
    /\ ~ev.preDnd.cardDrag.isTouch
    /\ ev.preDnd.cardDrag.started
    /\ gesture.far
    /\ EvListOf(PlaceholderEl(ev.preDnd.cardDrag.placeholder)) # 0
    /\ EvListOf(CardEl(ev.preDnd.cardDrag.cardEl)) # 0
    /\ EvListOf(PlaceholderEl(ev.preDnd.cardDrag.placeholder))
          # EvListOf(CardEl(ev.preDnd.cardDrag.cardEl))

----------------------------------------------------------------------------
(* Columns and startup: Store.addColumn, updateColumn, deleteColumn,       *)
(* reorderColumns and loadState                                            *)

MaxCols == 4             \* Store.addColumn is not called on a board this wide
MaxOrderLen == 2         \* the longest id list given to Store.reorderColumns
MaxOps == 3              \* operations in one run, startup included

\* Array.prototype.splice(start, 0, x): a negative start counts from the end
splice(s, start, x) ==
    LET from == IF start < 0
                THEN (IF Len(s) + start < 0 THEN 0 ELSE Len(s) + start)
                ELSE (IF start > Len(s) THEN Len(s) ELSE start)
    IN  InsertAt(s, from, x)

\* Store.addColumn; id: the value Utils.uid() returns
addColumn(cols, id, title) ==
    LET newColumn == Column(id, title, FALSE, FALSE, <<>>)
        archiveIndex == FirstIndex(cols, LAMBDA c : c.isArchive) - 1
    IN  splice(cols, archiveIndex, newColumn)

\* the guard of Store.updateColumn and Store.deleteColumn
columnIsEditable(cols, colId) ==
    findColumn(cols, colId) # 0 /\ ~cols[findColumn(cols, colId)].isArchive

\* Store.updateColumn
updateColumn(cols, colId, title, isDone) ==
    IF columnIsEditable(cols, colId)
    THEN LET col == findColumn(cols, colId)
             cleared == IF isDone
                        THEN [i \in 1..Len(cols) |-> [cols[i] EXCEPT !.isDone = FALSE]]
                        ELSE cols
         IN  [cleared EXCEPT ![col] = [@ EXCEPT !.title = title, !.isDone = isDone]]
    ELSE cols

\* Store.deleteColumn without the archive guard
deleteColumnAny(cols, colId) ==
    IF findColumn(cols, colId) # 0
    THEN SelectSeq(cols, LAMBDA c : c.id # colId)
    ELSE cols

\* Store.deleteColumn
deleteColumn(cols, colId) ==
    IF columnIsEditable(cols, colId)
    THEN SelectSeq(cols, LAMBDA c : c.id # colId)
    ELSE cols

\* Array.prototype.indexOf, 0-based; -1 when the value is absent
indexOf(s, x) == FirstIndex(s, LAMBDA y : y = x) - 1

\* Store.reorderColumns: Array.prototype.sort (stable) with the comparator
\* columnOrder.indexOf(a.id) - columnOrder.indexOf(b.id)
reorderColumns(cols, columnOrder) ==
    LET key(i) == indexOf(columnOrder, cols[i].id)
        before(j, i) == key(j) < key(i) \/ (key(j) = key(i) /\ j < i)
        rank(i) == Cardinality({j \in 1..Len(cols) : before(j, i)}) + 1
    IN  [r \in 1..Len(cols) |-> cols[CHOOSE i \in 1..Len(cols) : rank(i) = r]]

\* Store.getDemoState, one card a column
getDemoState ==
    << Column("d1", "Change the column title here", FALSE, FALSE, <<Card("dk1", "Welcome")>>),
       Column("d2", "In progress", FALSE, FALSE, <<Card("dk2", "Due date reminders")>>),
       Column("d3", "Done", TRUE, FALSE, <<Card("dk3", "Dark theme toggle")>>),
       Column("d4", "Archive", FALSE, TRUE, <<Card("dk4", "Archive column")>>) >>

\* LocalBackend.load: the value it returns (<<>> for null), or that it throws
LocalBackendLoad ==
    [threw |-> localStore = Unparseable,
     data |-> IF localStore = Unparseable THEN <<>> ELSE localStore]

\* the archive backfill of Store.loadState
ensureArchive(cols) ==
    IF \E i \in 1..Len(cols) : cols[i].isArchive THEN cols
    ELSE Append(cols, Column("archive", "Archive", FALSE, TRUE, <<>>))

\* The try block of Store.loadState with the remote backend configured:
\* data, the value saved to the remote store (<<>>: none), and whether the
\* catch block ran.  loadThrows, saveThrows: FirebaseBackend.load / save throw.
loadRemoteFirst(loadThrows, saveThrows) ==
    IF loadThrows THEN [caught |-> TRUE, data |-> <<>>, seeded |-> <<>>]
    ELSE IF remoteStore # <<>>
    THEN [caught |-> FALSE, data |-> remoteStore, seeded |-> <<>>]
    ELSE IF LocalBackendLoad.threw
    THEN [caught |-> TRUE, data |-> <<>>, seeded |-> <<>>]
    ELSE LET data == IF LocalBackendLoad.data # <<>> THEN LocalBackendLoad.data
                     ELSE <<getDemoState>>
         IN  IF saveThrows THEN [caught |-> TRUE, data |-> <<>>, seeded |-> <<>>]
             ELSE [caught |-> FALSE, data |-> data, seeded |-> data]

\* Store.loadState: whether it throws, the board it leaves and the value it
\* saved to the remote store
loadState(loadThrows, saveThrows) ==
    LET r == loadRemoteFirst(loadThrows, saveThrows)
        fromLocal == ~useFirebase \/ r.caught
        threw == fromLocal /\ LocalBackendLoad.threw
        loaded == IF fromLocal THEN LocalBackendLoad.data ELSE r.data
        data == IF loaded = <<>> \/ ~validateState(loaded) THEN <<getDemoState>>
                ELSE loaded
    IN  [threw |-> threw,
         state |-> IF threw THEN state ELSE ensureArchive(data[1]),
         seeded |-> IF useFirebase THEN r.seeded ELSE <<>>]

\* a call of Store.loadState
LoadState(loadThrows, saveThrows) ==
    /\ ev' = [op |-> "loadState", pre |-> state, n |-> OpCount + 1,
              threw |-> loadState(loadThrows, saveThrows).threw,
              loadThrows |-> loadThrows, saveThrows |-> saveThrows]
    /\ state' = loadState(loadThrows, saveThrows).state
    /\ remoteStore' = IF loadState(loadThrows, saveThrows).seeded # <<>>
                      THEN loadState(loadThrows, saveThrows).seeded
                      ELSE remoteStore
    /\ UNCHANGED <<seqKey, now, suppressEchoUntil, useFirebase, localStore, file,
                   lastSaveAt>>
    /\ UNCHANGED dndVars

\* a call of Store.addColumn
AddColumn(id, title, ok) ==
    /\ ev' = [op |-> "addColumn", colId |-> id, pre |-> state, n |-> OpCount + 1,
              ok |-> ok]
    /\ state' = addColumn(state, id, title)
    /\ saveState(state', ok)
    /\ UNCHANGED <<seqKey, now, useFirebase, file>>
    /\ UNCHANGED dndVars

\* a call of Store.updateColumn
UpdateColumn(colId, title, isDone, ok) ==
    /\ ev' = [op |-> "updateColumn", colId |-> colId, title |-> title,
              isDone |-> isDone, pre |-> state, n |-> OpCount + 1, ok |-> ok]
    /\ state' = updateColumn(state, colId, title, isDone)
    /\ IF columnIsEditable(state, colId)
       THEN saveState(state', ok)
       ELSE ok /\ UNCHANGED <<suppressEchoUntil, localStore, remoteStore, lastSaveAt>>
    /\ UNCHANGED <<seqKey, now, useFirebase, file>>
    /\ UNCHANGED dndVars

\* a call of Store.deleteColumn
DeleteColumn(colId, ok) ==
    /\ ev' = [op |-> "deleteColumn", colId |-> colId, pre |-> state, n |-> OpCount + 1,
              ok |-> ok]
    /\ state' = deleteColumn(state, colId)
    /\ IF columnIsEditable(state, colId)
       THEN saveState(state', ok)
       ELSE ok /\ UNCHANGED <<suppressEchoUntil, localStore, remoteStore, lastSaveAt>>
    /\ UNCHANGED <<seqKey, now, useFirebase, file>>
    /\ UNCHANGED dndVars

\* a call of Store.reorderColumns
ReorderColumns(columnOrder, ok) ==
    /\ ev' = [op |-> "reorderColumns", columnOrder |-> columnOrder, pre |-> state,
              n |-> OpCount + 1, ok |-> ok]
    /\ state' = reorderColumns(state, columnOrder)
    /\ saveState(state', ok)
    /\ UNCHANGED <<seqKey, now, useFirebase, file>>
    /\ UNCHANGED dndVars

\* a stored board with a done column and an archive column
ColsBoard ==
    << Column("A", "Todo", FALSE, FALSE, <<Card("k1", "t1")>>),
       Column("B", "Done", TRUE, FALSE, <<Card("k2", "t2")>>),
       Column("archive", "Archive", FALSE, TRUE, <<Card("k3", "t3")>>) >>

\* a stored board without done column and without archive column
PlainBoard == << Column("A", "Todo", FALSE, FALSE, <<Card("k1", "t1")>>) >>

\* files offered for import: a done column "Shipped" and an archive column
\* "Old archive", neither matching a local column by id or title; a board
\* of the one column "Todo"
ColsFiles ==
    { << << Column("S", "Shipped", TRUE, FALSE, <<>>),
            Column("O", "Old archive", FALSE, TRUE, <<>>) >> >>,
      << PlainBoard >> }

ColIds == {"A", "B", "archive", "n1"}

ColTitles == {"Todo", "Later"}

ColumnOrders == UNION { [1..n -> {"A", "B", "archive"}] : n \in 0..MaxOrderLen }

\* before startup: Store.state as declared, every content of the stores
InitCols ==
    /\ state = <<>>
    /\ seqKey = 1
    /\ now = 500
    /\ suppressEchoUntil = 0
    /\ useFirebase \in BOOLEAN
    /\ localStore \in {<<>>, Unparseable, WrongShape, <<ColsBoard>>, <<PlainBoard>>}
    /\ remoteStore \in {<<>>, <<ColsBoard>>}
    /\ file \in ColsFiles
    /\ lastSaveAt = -1
    /\ Dnd = IdleDnd
    /\ dom = EmptyDocument
    /\ timers = NoTimers
    /\ gesture = NoGesture
    /\ ev = NoEv

\* startup has completed
Started == state # <<>>

NextCols ==
    \/ \E loadThrows \in BOOLEAN, saveThrows \in BOOLEAN :
          /\ ~Started /\ OpCount < MaxOps
          /\ ~useFirebase => (~loadThrows /\ ~saveThrows)
          /\ LoadState(loadThrows, saveThrows)
    \/ \E id \in {"n1"}, title \in ColTitles :
          /\ Started /\ OpCount < MaxOps
          /\ Len(state) < MaxCols
          /\ findColumn(state, id) = 0
          /\ AddColumn(id, title, TRUE)
    \/ \E colId \in ColIds, title \in ColTitles, isDone \in BOOLEAN :
          Started /\ OpCount < MaxOps /\ UpdateColumn(colId, title, isDone, TRUE)
    \/ \E colId \in ColIds : Started /\ OpCount < MaxOps /\ DeleteColumn(colId, TRUE)
    \/ \E columnOrder \in ColumnOrders : Started /\ OpCount < MaxOps /\ ReorderColumns(columnOrder, TRUE)
    \/ \E choice \in {"merge", "replace"} : Started /\ OpCount < MaxOps /\ ImportJSON(choice, TRUE)
    \/ \E incoming \in {<<ColsBoard>>, <<PlainBoard>>} :
          Started /\ OpCount < MaxOps /\ SubscribeDeliver(incoming)

SpecCols == InitCols /\ [][NextCols]_vars

DoneCount(cols) == Cardinality({i \in 1..Len(cols) : cols[i].isDone})

ArchiveCount(cols) == Cardinality({i \in 1..Len(cols) : cols[i].isArchive})

\* C11: after a Store.updateColumn(colId, {title, isDone: true}) call, for
\* any colId, exactly one column of the board has isDone = true.
C11_SingleDoneAfterUpdate ==
    (ev.op = "updateColumn" /\ ev.isDone) => DoneCount(state) = 1

\* the last call was Store.deleteColumn with the id of an archive column
EvDeleteArchive ==
    /\ ev.op = "deleteColumn"
    /\ \E i \in 1..Len(ev.pre) : ev.pre[i].id = ev.colId /\ ev.pre[i].isArchive

\* C12: Store.deleteColumn with the archive column's id leaves the board
\* unchanged; when Store.loadState completes the board has a column with
\* isArchive = true, appended to the loaded columns when they have none.
C12_ArchivePermanence ==
    /\ EvDeleteArchive => state = ev.pre
    /\ (ev.op = "loadState" /\ ~ev.threw) =>
          /\ ArchiveCount(state) >= 1
          /\ (~useFirebase /\ localStore = <<PlainBoard>>) =>
                state = Append(PlainBoard, Column("archive", "Archive", FALSE, TRUE, <<>>))

\* the archive column that startup appended is still there after
\* Store.deleteColumn("archive")
C12_Witness ==
    /\ EvDeleteArchive
    /\ ev.colId = "archive"
    /\ ev.pre = Append(PlainBoard, Column("archive", "Archive", FALSE, TRUE, <<>>))
    /\ state = ev.pre

\* C13: in every state after startup exactly one column has isArchive = true.
C13_ExactlyOneArchive == Started => ArchiveCount(state) = 1

\* C14: in every state at most one column has isDone = true.
C14_AtMostOneDone == DoneCount(state) <= 1

\* the columns of cols whose id is in the list, ordered by the first
\* position of their id in the list, then the other columns in their order
ListedFirst(cols, columnOrder) ==
    LET listed(i) == \E k \in 1..Len(columnOrder) : columnOrder[k] = cols[i].id
        pos(i) == CHOOSE k \in 1..Len(columnOrder) :
                      /\ columnOrder[k] = cols[i].id
                      /\ \A m \in 1..(k - 1) : columnOrder[m] # cols[i].id
        before(j, i) ==
            \/ listed(j) /\ ~listed(i)
            \/ listed(j) /\ listed(i) /\ (pos(j) < pos(i) \/ (pos(j) = pos(i) /\ j < i))
            \/ ~listed(j) /\ ~listed(i) /\ j < i
        rank(i) == Cardinality({j \in 1..Len(cols) : before(j, i)}) + 1
    IN  [r \in 1..Len(cols) |-> cols[CHOOSE i \in 1..Len(cols) : rank(i) = r]]

\* C15: Store.reorderColumns(list) orders the listed columns by their
\* position in the list and places the columns absent from the list after
\* them, in their previous relative order; columns and cards are unchanged.
C15_ReorderListedFirst ==
    ev.op = "reorderColumns" => state = ListedFirst(ev.pre, ev.columnOrder)

----------------------------------------------------------------------------
(* The card drag recogniser with every press the document can deliver     *)

\* the events of the page, a press on a card at any time (a second finger,
\* or the mouse while a finger is down)
NextDndOverlap ==
    \/ \E p \in PointerIds, button \in {0, 2}, interactive \in BOOLEAN,
          card \in CardIds(state) :
          /\ dom.editor = ""
          /\ gesture.n < MaxGestures
          /\ seqKey < MaxSeq
          /\ startCardPotentialDrag(p, button, interactive, card)
    \/ \E p \in PointerIds, v \in Displacements,
          list \in 0..Len(dom.lists), slot \in 0..MaxSlot :
          /\ MoveInputRead(p, v, list, slot)
          /\ onCardPotentialMove(p, v[1], v[2], list, slot)
    \/ \E p \in PointerIds, kind \in {"pointerup", "pointercancel"} :
          onCardDragEnd(p, kind, TRUE)
    \/ \E id \in timers.longPress : LongPressFire(id)
    \/ ClickResetFire
    \/ onBoardClick

SpecDndOverlap == InitDnd /\ [][NextDndOverlap]_vars

\* a touch gesture is Armed and its long-press timer is pending
TouchArmed ==
    /\ Dnd.cardDrag # Null
    /\ Dnd.cardDrag.isTouch
    /\ ~Dnd.cardDrag.started
    /\ Dnd.cardDrag.timerId \in timers.longPress

\* C16: a touch gesture that is Armed becomes Dragging when its long-press
\* timer fires, and also when its pointer moves more than 8px from the
\* press point (without passing the cancel threshold) while the timer is
\* pending; either trigger starts one drag (one more ghost).
C16_TouchStartTriggers ==
    [][ TouchArmed =>
          /\ (ev'.op = "longpress" /\ Dnd.cardDrag.timerId \notin timers'.longPress)
                => (Dnd'.cardDrag.started /\ dom'.ghosts = dom.ghosts + 1)
          /\ (/\ ev'.op = "pointermove"
              /\ ev'.pointerId = Dnd.cardDrag.pointerId
              /\ ev'.x * ev'.x + ev'.y * ev'.y > 64
              /\ ev'.x <= 10 /\ ev'.x >= -10 /\ ev'.y <= 10 /\ ev'.y >= -10)
                => (Dnd'.cardDrag.started /\ dom'.ghosts = dom.ghosts + 1) ]_vars

\* some list of the document holds a placeholder
PlaceholderShown ==
    \E l \in 1..Len(dom.lists) :
        \E i \in 1..Len(dom.lists[l].children) : dom.lists[l].children[i].ph # 0

C19_OverlappingPressIgnored ==
    [][ (Dnd.cardDrag # Null /\ ev'.op = "pointerdown")
        => (Dnd' = Dnd /\ timers' = timers /\ dom' = dom) ]_vars

\* C20: Dnd.autoScrollInterval is set only while a card drag has started
\* (no column drag is open in these runs), so it is cleared in the step
\* that ends the drag.
C20_AutoScrollOnlyWhileDragging ==
    Dnd.autoScrollInterval => (Dnd.cardDrag # Null /\ Dnd.cardDrag.started)

\* C21: while a card drag is started Dnd.suppressClick is set, and the click
\* dispatched by the release of a started drag finds it set, so it does not
\* open the card editor; for every sequence of gestures.
C21_ClickSuppressedAfterDrag ==
    /\ (Dnd.cardDrag # Null /\ Dnd.cardDrag.started) => Dnd.suppressClick
    /\ (ev.op = "click" /\ ev.started) => (ev.suppressed /\ dom.editor = "")

\* the last event is the click of a mouse gesture whose pointer never moved
\* more than 6px from the press point
EvSmallMouseClick ==
    /\ ev.op = "click"
    /\ ~gesture.isTouch
    /\ ~gesture.far

C23_LoadStateNeverThrows ==
    ev.op = "loadState" =>
        /\ ~ev.threw
        /\ state # <<>>
        /\ validateState(<<state>>)
        /\ ArchiveCount(state) >= 1
        /\ (~useFirebase /\ localStore \in {<<>>, Unparseable, WrongShape})
              => state = getDemoState

-----------------------------------------------------------------------------
(* The BoardModel operations and their saves *)

MaxCards == 4            \* cards on the board
MaxCalls == 2            \* operations after the move in one run

\* Store.addCard: the new card is pushed onto the column, if there is one
addCard(cols, colId, card) ==
    IF findColumn(cols, colId) = 0 THEN cols
    ELSE [cols EXCEPT ![findColumn(cols, colId)].cards = Append(@, card)]

\* Store.updateCard on the first card with this id
updateCard(cols, cardId, cardData, ts, by, sq) ==
    LET at == findCard(cols, cardId)
    IN  IF at = <<0, 0>> THEN cols
        ELSE [cols EXCEPT ![at[1]].cards[at[2]] =
                 [@ EXCEPT !.title = cardData.title,
                           !.description = cardData.description,
                           !.tags = cardData.tags, !.due = cardData.due,
                           !.reminder = cardData.reminder,
                           !.lastChanged = ts, !.lastChangedBy = by, !.seq = sq,
                           !.contentChangedAt = ts]]

\* Store.deleteCard: the first card with this id is spliced out
deleteCard(cols, cardId) ==
    LET at == findCard(cols, cardId)
    IN  IF at = <<0, 0>> THEN cols
        ELSE [cols EXCEPT ![at[1]].cards = RemoveAt(@, at[2])]

\* a call of Store.addCard; id is what Utils.uid() returns
AddCard(colId, id, title, ok) ==
    /\ ev' = [op |-> "addCard", colId |-> colId, cardId |-> id, pre |-> state,
              n |-> OpCount + 1, ok |-> ok]
    /\ IF findColumn(state, colId) # 0
       THEN /\ seqKey < MaxSeq
            /\ state' = addCard(state, colId, AddedCard(id, title, nowIso, nextSeq))
            /\ seqKey' = nextSeq
            /\ saveState(state', ok)
       ELSE /\ ok
            /\ UNCHANGED <<state, seqKey, suppressEchoUntil, localStore, remoteStore,
                           lastSaveAt>>
    /\ UNCHANGED <<now, useFirebase, file>>
    /\ UNCHANGED dndVars

\* a call of Store.updateCard
UpdateCard(cardId, cardData, ok) ==
    /\ ev' = [op |-> "updateCard", cardId |-> cardId, cardData |-> cardData,
              pre |-> state, n |-> OpCount + 1, ok |-> ok]
    /\ IF findCard(state, cardId) # <<0, 0>>
       THEN /\ seqKey < MaxSeq
            /\ state' = updateCard(state, cardId, cardData, nowIso, ClientId, nextSeq)
            /\ seqKey' = nextSeq
            /\ saveState(state', ok)
       ELSE /\ ok
            /\ UNCHANGED <<state, seqKey, suppressEchoUntil, localStore, remoteStore,
                           lastSaveAt>>
    /\ UNCHANGED <<now, useFirebase, file>>
    /\ UNCHANGED dndVars

\* a call of Store.deleteCard
DeleteCard(cardId, ok) ==
    /\ ev' = [op |-> "deleteCard", cardId |-> cardId, pre |-> state,
              n |-> OpCount + 1, ok |-> ok]
    /\ state' = deleteCard(state, cardId)
    /\ IF findCard(state, cardId) # <<0, 0>>
       THEN saveState(state', ok)
       ELSE ok /\ UNCHANGED <<suppressEchoUntil, localStore, remoteStore, lastSaveAt>>
    /\ UNCHANGED <<seqKey, now, useFirebase, file>>
    /\ UNCHANGED dndVars

\* what the card editor submits
CardDatas ==
    { [title |-> "t9", description |-> 1, tags |-> 2, due |-> 0, reminder |-> 1] }

\* a loaded board; with the remote backend configured the remote store holds it
InitOps ==
    /\ state = ColsBoard
    /\ seqKey = 1
    /\ now = 500
    /\ suppressEchoUntil = 0
    /\ useFirebase \in BOOLEAN
    /\ localStore = <<PlainBoard>>
    /\ remoteStore = IF useFirebase THEN <<ColsBoard>> ELSE <<>>
    /\ file = <<>>
    /\ lastSaveAt = -1
    /\ Dnd = IdleDnd
    /\ dom = renderBoard(EmptyDocument, state)
    /\ timers = NoTimers
    /\ gesture = NoGesture
    /\ ev = NoEv

\* whether a save succeeds is open only when the remote backend is configured
SaveOutcomes == IF useFirebase THEN BOOLEAN ELSE {TRUE}

\* the operations of one run: at most one Store.moveCard call, first, then
\* at most MaxCalls calls of the other operations
NextOps ==
    \/ \E title \in {"Later"}, ok \in SaveOutcomes :
          /\ OpCount < MaxCalls
          /\ Len(state) < MaxCols
          /\ findColumn(state, "n1") = 0
          /\ AddColumn("n1", title, ok)
    \/ \E colId \in ColIds, title \in {"Later"}, isDone \in BOOLEAN, ok \in SaveOutcomes :
          OpCount < MaxCalls /\ UpdateColumn(colId, title, isDone, ok)
    \/ \E colId \in ColIds, ok \in SaveOutcomes :
          OpCount < MaxCalls /\ DeleteColumn(colId, ok)
    \/ \E columnOrder \in ColumnOrders, ok \in SaveOutcomes :
          OpCount < MaxCalls /\ ReorderColumns(columnOrder, ok)
    \/ \E colId \in {"A", "nocol"}, ok \in SaveOutcomes :
          /\ OpCount < MaxCalls
          /\ NumCards(state) < MaxCards
          /\ "k8" \notin CardIds(state)
          /\ AddCard(colId, "k8", "t8", ok)
    \/ \E cardId \in {"k1", "nocard"}, cardData \in CardDatas, ok \in SaveOutcomes :
          OpCount < MaxCalls /\ UpdateCard(cardId, cardData, ok)
    \/ \E cardId \in {"k1", "k3", "nocard"}, ok \in SaveOutcomes :
          OpCount < MaxCalls /\ DeleteCard(cardId, ok)
    \/ \E c \in {"k1", "k2"}, f \in {"A", "B"}, t \in {"B", "archive"}, i \in {-1, 0},
          ok \in SaveOutcomes :
          OpCount = 0 /\ ev.op # "moveCard" /\ MoveCard(c, f, t, i, ok)

SpecOps == InitOps /\ [][NextOps]_vars

BoardModelOps ==
    {"addColumn", "updateColumn", "deleteColumn", "reorderColumns",
     "addCard", "updateCard", "deleteCard", "moveCard"}

\* the last call was a BoardModel operation whose arguments name something
\* on the board it found, so that it had a change to make
EvMutation ==
    /\ ev.op \in BoardModelOps
    /\ CASE ev.op \in {"updateColumn", "deleteColumn"} -> columnIsEditable(ev.pre, ev.colId)
         [] ev.op = "addCard" -> findColumn(ev.pre, ev.colId) # 0
         [] ev.op \in {"updateCard", "deleteCard"} -> findCard(ev.pre, ev.cardId) # <<0, 0>>
         [] ev.op = "moveCard" -> moveCardApplies(ev.pre, ev.cardId, ev.fromColId, ev.toColId)
         [] OTHER -> TRUE

\* the board shows the change the last operation was called for
EvApplied ==
    CASE ev.op = "addColumn" ->
            findColumn(state, ev.colId) # 0 /\ Len(state) = Len(ev.pre) + 1
      [] ev.op = "updateColumn" ->
            /\ state[findColumn(state, ev.colId)].title = ev.title
            /\ state[findColumn(state, ev.colId)].isDone = ev.isDone
      [] ev.op = "deleteColumn" -> findColumn(state, ev.colId) = 0
      [] ev.op = "reorderColumns" ->
            /\ Len(state) = Len(ev.pre)
            /\ \A i \in 1..Len(ev.pre) : \E j \in 1..Len(state) : state[j] = ev.pre[i]
            /\ \A i, j \in 1..Len(state) :
                  (/\ i < j
                   /\ indexOf(ev.columnOrder, state[i].id) >= 0
                   /\ indexOf(ev.columnOrder, state[j].id) >= 0)
                  => indexOf(ev.columnOrder, state[i].id)
                        <= indexOf(ev.columnOrder, state[j].id)
      [] ev.op = "addCard" ->
            LET col == state[findColumn(state, ev.colId)]
            IN  /\ Len(col.cards) > 0
                /\ col.cards[Len(col.cards)].id = ev.cardId
                /\ NumCards(state) = NumCards(ev.pre) + 1
      [] ev.op = "updateCard" ->
            LET at == findCard(state, ev.cardId)
            IN  /\ at # <<0, 0>>
                /\ state[at[1]].cards[at[2]].title = ev.cardData.title
                /\ state[at[1]].cards[at[2]].description = ev.cardData.description
      [] ev.op = "deleteCard" ->
            CountId(state, ev.cardId) = CountId(ev.pre, ev.cardId) - 1
      [] ev.op = "moveCard" ->
            /\ NumCards(state) = NumCards(ev.pre)
            /\ \E i \in 1..Len(state[findColumn(state, ev.toColId)].cards) :
                  state[findColumn(state, ev.toColId)].cards[i].id = ev.cardId
      [] OTHER -> FALSE

\* C24: every BoardModel operation that has a change to make leaves the
\* board changed whether its save succeeds or fails, and when the remote
\* save fails the local store holds the current board.
C24_FailedSaveKeepsMutation ==
    EvMutation =>
        /\ EvApplied
        /\ (useFirebase /\ ~ev.ok) => localStore = <<state>>

\* a move whose remote save failed: the card has moved and the local store
\* has the new board
C24_Witness ==
    /\ EvMutation /\ ev.op = "moveCard"
    /\ useFirebase /\ ~ev.ok
    /\ state # ev.pre
    /\ localStore = <<state>>
    /\ remoteStore = <<ColsBoard>>

-----------------------------------------------------------------------------
(* Import: the file and the choice *)

\* files offered for import: none, a text that is not JSON, JSON of the
\* wrong shape, and boards
ImportFiles == {<<>>, Unparseable, WrongShape, <<PlainBoard>>} \cup ColsFiles

ImportChoices == {"replace", "merge", "cancel", ""}

\* a loaded board whose stores hold an older board
InitImport ==
    /\ state = ColsBoard
    /\ seqKey = 1
    /\ now = 500
    /\ suppressEchoUntil = 0
    /\ useFirebase \in BOOLEAN
    /\ localStore = <<PlainBoard>>
    /\ remoteStore = IF useFirebase THEN <<PlainBoard>> ELSE <<>>
    /\ file \in ImportFiles
    /\ lastSaveAt = -1
    /\ Dnd = IdleDnd
    /\ dom = renderBoard(EmptyDocument, state)
    /\ timers = NoTimers
    /\ gesture = NoGesture
    /\ ev = NoEv

NextImport ==
    \/ \E choice \in ImportChoices, ok \in SaveOutcomes :
          OpCount < MaxOps /\ ImportJSON(choice, ok)
    \/ \E cardId \in {"k1", "k3"}, ok \in SaveOutcomes :
          OpCount < MaxOps /\ DeleteCard(cardId, ok)

SpecImport == InitImport /\ [][NextImport]_vars

\* C25: an import of a file that is not parseable or fails validation, or
\* with the choice 'cancel' or the empty choice, leaves Store.state as it
\* was and issues no save; an import of a valid file with the choice
\* 'replace' makes the board exactly the file's content.
C25_ImportUntouchedUnlessChosen ==
    [][ ev'.op = "import" /\ ev'.n # OpCount =>
          /\ (file \in {Unparseable, WrongShape} \/ ev'.choice \in {"cancel", ""})
                => UNCHANGED <<state, localStore, remoteStore, suppressEchoUntil,
                               lastSaveAt>>
          /\ (file \notin {<<>>, Unparseable, WrongShape} /\ ev'.choice = "replace")
                => state' = file[1] ]_vars

\* a 'replace' import of an unparseable file after a card was deleted: the
\* board is still the one the deletion left, and the stores were not written
C25_Witness ==
    /\ ev.op = "import" /\ ev.choice = "replace"
    /\ file = Unparseable
    /\ ~useFirebase
    /\ ev.prevOp = "deleteCard"
    /\ state = ev.pre
    /\ state # ColsBoard
    /\ localStore = <<state>>

-----------------------------------------------------------------------------
(* Merge: relocation, decoupling, column matching *)

\* the position key (positionChangedAt, lastChanged, seq, lastChangedBy)
PositionKey(c) ==
    <<timeVal(c.positionChangedAt), timeVal(c.lastChanged), seqVal(c.seq), c.lastChangedBy>>

LexGreater4(a, b) ==
    \/ a[1] > b[1]
    \/ a[1] = b[1] /\ LexGreater(<<a[2], a[3], a[4]>>, <<b[2], b[3], b[4]>>)

\* the index of the column of cols that holds a card with this id, 0 if none
ColumnOfCard(cols, id) ==
    FirstIndex(cols, LAMBDA c : \E i \in 1..Len(c.cards) : c.cards[i].id = id)

\* the id of the column of the board cols that an incoming column matches:
\* by id, else by normalised title, "" if by neither
MatchedColumnId(cols, incCol) ==
    IF \E i \in 1..Len(cols) : cols[i].id = incCol.id THEN incCol.id
    ELSE IF \E i \in 1..Len(cols) : normTitle(cols[i].title) = normTitle(incCol.title)
    THEN cols[CHOOSE i \in 1..Len(cols) :
                 normTitle(cols[i].title) = normTitle(incCol.title)].id
    ELSE ""

\* the card id is in column colId of the board and in no column before it,
\* and no card that column held before the merge stands after it
MovedToEndOf(id, colId) ==
    LET t == findColumn(state, colId)
        p == findColumn(ev.pre, colId)
        old == IF p = 0 THEN {} ELSE {ev.pre[p].cards[i].id : i \in 1..Len(ev.pre[p].cards)}
    IN  /\ t # 0
        /\ ColumnOfCard(state, id) = t
        /\ \E i \in 1..Len(state[t].cards) :
              /\ state[t].cards[i].id = id
              /\ \A k \in (i + 1)..Len(state[t].cards) :
                    state[t].cards[k].id \notin old \ {id}

\* a merge of a file into a board, card ids unique on both sides, and a card
\* on both sides whose incoming column matches another column of the board
\* than the one that holds it
EvCardElsewhere(id) ==
    /\ EvMerged /\ UniqueIds(ev.pre) /\ UniqueIds(file[1])
    /\ id \in CardIds(ev.pre) \cap CardIds(file[1])
    /\ MatchedColumnId(ev.pre, file[1][ColumnOfCard(file[1], id)]) # ""
    /\ MatchedColumnId(ev.pre, file[1][ColumnOfCard(file[1], id)])
          # ev.pre[ColumnOfCard(ev.pre, id)].id

\* C26: in a merge, a card whose incoming column resolved to another column
\* than the one holding it and whose incoming position key is strictly
\* greater than the existing card's key before the merge is moved to the
\* end of the resolved column, whatever the content keys are.
C26_NewerPositionRelocates ==
    \A id \in {"k1"} :
        (/\ EvCardElsewhere(id)
         /\ LexGreater4(PositionKey(CardOf(file[1], id)), PositionKey(CardOf(ev.pre, id))))
        => MovedToEndOf(id, MatchedColumnId(ev.pre, file[1][ColumnOfCard(file[1], id)]))

\* C27: in a merge, a card whose incoming copy has an older
\* contentChangedAt than the existing card and a newer positionChangedAt
\* and lastChanged (it was only moved since) keeps the existing card's
\* title, description, tags, due and reminder.
C27_MoveIsNotContentChange ==
    (EvMerged /\ UniqueIds(ev.pre) /\ UniqueIds(file[1])) =>
        \A id \in CardIds(ev.pre) \cap CardIds(file[1]) :
            LET ex == CardOf(ev.pre, id)
                inc == CardOf(file[1], id)
            IN  (/\ inc.contentChangedAt > 0
                 /\ inc.contentChangedAt < ex.contentChangedAt
                 /\ inc.positionChangedAt > ex.positionChangedAt
                 /\ inc.lastChanged > ex.lastChanged
                 /\ ex.lastChanged > 0 /\ ex.positionChangedAt > 0)
                => \A c \in CopiesOf(state, id) : Content(c) = Content(ex)

\* whether column j of the file f matches no column of the board cols
Unmatched(cols, f, j) == MatchedColumnId(cols, f[j]) = ""

\* the id of the column that column j of the file f resolves to: the
\* matched column of the board, else the first unmatched column of the file
\* with the same normalised title (that one is appended)
ResolvedColumnId(cols, f, j) ==
    IF ~Unmatched(cols, f, j) THEN MatchedColumnId(cols, f[j])
    ELSE f[CHOOSE i \in 1..j :
              /\ Unmatched(cols, f, i)
              /\ normTitle(f[i].title) = normTitle(f[j].title)
              /\ \A h \in 1..(i - 1) :
                    ~(Unmatched(cols, f, h)
                      /\ normTitle(f[h].title) = normTitle(f[j].title))].id

\* the columns of the file f that the merge appends to the board cols
AppendedColumns(cols, f) ==
    {j \in 1..Len(f) : Unmatched(cols, f, j) /\ ResolvedColumnId(cols, f, j) = f[j].id}

\* C28: in a merge (card ids unique on the board and in the file, column
\* ids unique in the file) every incoming column resolves to the board
\* column with its id, else to one with its normalised title, else it is
\* appended; no column is created for a matched one; and every incoming
\* card whose id was not on the board is on the board exactly once, at the
\* end of the column its incoming column resolved to.
C28_ColumnMatching ==
    (EvMerged /\ UniqueIds(ev.pre) /\ UniqueIds(file[1])) =>
        LET f == file[1] IN
        /\ Len(state) = Len(ev.pre) + Cardinality(AppendedColumns(ev.pre, f))
        /\ \A i \in 1..Len(ev.pre) : state[i].id = ev.pre[i].id
        /\ \A i \in (Len(ev.pre) + 1)..Len(state) :
              \E j \in AppendedColumns(ev.pre, f) : state[i].id = f[j].id
        /\ \A j \in 1..Len(f) :
              /\ findColumn(state, ResolvedColumnId(ev.pre, f, j)) # 0
              /\ \A k \in 1..Len(f[j].cards) :
                    f[j].cards[k].id \notin CardIds(ev.pre)
                    => /\ CountId(state, f[j].cards[k].id) = 1
                       /\ MovedToEndOf(f[j].cards[k].id, ResolvedColumnId(ev.pre, f, j))

\* a file of two columns, one matched by title and one matched by neither,
\* the new card k3 in the first: the board has one column more and k3 is
\* the last card of the column titled "Done"
C28_Witness ==
    /\ EvMerged /\ UniqueIds(ev.pre) /\ UniqueIds(file[1])
    /\ Len(file[1]) = 2
    /\ file[1][1].id = "X" /\ file[1][2].id = "Y"
    /\ Len(file[1][1].cards) = 1 /\ file[1][1].cards[1].id = "k3"
    /\ Len(state) = Len(ev.pre) + 1
    /\ state[Len(state)].id = "Y"
    /\ state[2].id = "B"
    /\ state[2].cards[Len(state[2].cards)].id = "k3"

\* the card ids a list of the document shows, and those of a column
ShownIds(list) == [i \in 1..Len(list.children) |-> list.children[i].card]

CardIdSeq(col) == [i \in 1..Len(col.cards) |-> col.cards[i].id]

\* the last event released a started drag whose placeholder stood in a list
EvCommitted ==
    /\ EvEnded
    /\ ev.preDnd.cardDrag.started
    /\ EvListOf(PlaceholderEl(ev.preDnd.cardDrag.placeholder)) # 0

\* C29: after a committed card drag the cards of the target column in
\* Store.state are in the order the column's list shows, the dragged card
\* standing where the placeholder was.
C29_ModelMatchesView ==
    EvCommitted =>
        LET list == dom.lists[EvListOf(PlaceholderEl(ev.preDnd.cardDrag.placeholder))]
        IN  /\ findColumn(state, list.id) # 0
            /\ CardIdSeq(state[findColumn(state, list.id)]) = ShownIds(list)

\* C30: the delivery that echoes a save of this device is discarded: it
\* leaves Store.state as it was, whenever it arrives and whatever the
\* device did in between.
C30_OwnWriteNotReingested ==
    (ev.op = "deliver" /\ OwnWriteStored /\ ev.incoming = remoteStore)
        => state = ev.pre

\* a is below b in the order of content keys, or of position keys
ContentKeyBelow(a, b) == LexGreater(ContentKey(b), ContentKey(a))

PositionKeyBelow(a, b) == LexGreater4(PositionKey(b), PositionKey(a))

\* C31: in a merge that leaves card ids unique, every card the board had
\* keeps or raises its content key and its position key, and a card whose
\* incoming content key is not strictly greater (or that the file does not
\* have) keeps all its fields.
C31_MergeKeysNeverDecrease ==
    (EvMerged /\ UniqueIds(ev.pre) /\ UniqueIds(file[1]) /\ UniqueIds(state)) =>
        \A id \in CardIds(ev.pre) :
            LET ex == CardOf(ev.pre, id)
                now1 == CardOf(state, id)
            IN  /\ id \in CardIds(state)
                /\ ~ContentKeyBelow(now1, ex)
                /\ ~PositionKeyBelow(now1, ex)
                /\ (id \notin CardIds(file[1])
                     \/ ~ContentKeyBelow(ex, CardOf(file[1], id)))
                   => now1 = ex

\* C32: when the pointerup or pointercancel of the pointer a card gesture
\* tracks (Armed or Dragging) has been handled, the gesture is Idle:
\* Dnd.cardDrag is null, its long-press timer is cleared, the document
\* listeners are removed, no ghost and no placeholder is left, no card is
\* marked dragging and auto-scroll is stopped; the same for both events.
C32_GestureTeardown ==
    EvEnded =>
        /\ Dnd.cardDrag = Null
        /\ ev.preDnd.cardDrag.timerId \notin timers.longPress
        /\ ~dom.listening
        /\ dom.ghosts = 0
        /\ ~PlaceholderShown
        /\ dom.dragging = {}
        /\ ~Dnd.autoScrollInterval

\* the operations that stamp a sequence number when they apply
StampingOps == {"addCard", "updateCard", "moveCard"}

\* C33: the stored sequence counter never decreases; every addCard,
\* updateCard and applied moveCard takes one value from Meta.nextSeq, which
\* is greater than the counter before the call (so greater than every value
\* returned earlier) and greater than the seq of every card on the board,
\* and stamps it on the card it is about.
C33_SeqStrictlyIncreasing ==
    [][ /\ seqKey' >= seqKey
        /\ \A i \in 1..NumCards(state) : AllCards(state)[i].seq <= seqKey
        /\ (ev'.op \in StampingOps /\ EvMutation')
             => /\ seqKey' = seqKey + 1
                /\ CardOf(state', ev'.cardId).seq = seqKey'
                /\ \A i \in 1..NumCards(state) : AllCards(state)[i].seq < seqKey' ]_vars

\* a second stamping call has taken the next value
C33_Witness ==
    /\ ev.op \in StampingOps /\ EvMutation
    /\ CardOf(state, ev.cardId).seq = seqKey
    /\ \E i \in 1..NumCards(ev.pre) : AllCards(ev.pre)[i].seq = seqKey - 1

\* every card of the board other than id is the record it was before the call
OtherCardsKept(id) ==
    /\ CardIds(state) = CardIds(ev.pre)
    /\ \A other \in CardIds(ev.pre) \ {id} : CardOf(state, other) = CardOf(ev.pre, other)

\* C34: an applied moveCard changes, on the moved card, only lastChanged,
\* lastChangedBy, seq and positionChangedAt, and changes no other card; an
\* applied updateCard changes only the content fields, lastChanged,
\* lastChangedBy, seq and contentChangedAt of its card, which stays at its
\* column and index, and changes nothing else on the board.
C34_StampFrame ==
    /\ (ev.op = "moveCard" /\ EvMutation) =>
          LET old == CardOf(ev.pre, ev.cardId)
              new == CardOf(state, ev.cardId)
          IN  /\ new = [old EXCEPT !.lastChanged = new.lastChanged,
                                    !.lastChangedBy = new.lastChangedBy,
                                    !.seq = new.seq,
                                    !.positionChangedAt = new.positionChangedAt]
              /\ OtherCardsKept(ev.cardId)
    /\ (ev.op = "updateCard" /\ EvMutation) =>
          LET at == findCard(ev.pre, ev.cardId)
              old == CardOf(ev.pre, ev.cardId)
              new == CardOf(state, ev.cardId)
          IN  /\ findCard(state, ev.cardId) = at
              /\ new = [old EXCEPT !.title = ev.cardData.title,
                                    !.description = ev.cardData.description,
                                    !.tags = ev.cardData.tags,
                                    !.due = ev.cardData.due,
                                    !.reminder = ev.cardData.reminder,
                                    !.lastChanged = new.lastChanged,
                                    !.lastChangedBy = new.lastChangedBy,
                                    !.seq = new.seq,
                                    !.contentChangedAt = new.contentChangedAt]
              /\ state = [ev.pre EXCEPT ![at[1]].cards[at[2]] = new]

\* a card that was moved and then edited: both stamps are set, and a card
\* that was only moved has no content stamp
C34_Witness ==
    /\ ev.op = "updateCard" /\ EvMutation
    /\ CardOf(state, ev.cardId).positionChangedAt > 0
    /\ CardOf(state, ev.cardId).contentChangedAt > 0
    /\ CardOf(ev.pre, ev.cardId).contentChangedAt = 0
    /\ CardOf(state, ev.cardId).seq = CardOf(ev.pre, ev.cardId).seq + 1

-----------------------------------------------------------------------------
(* Every way a board comes from outside: startup, import and subscribe *)

\* before startup; the stores and the file hold a board or something else
InitAdopt ==
    /\ state = <<>>
    /\ seqKey = 1
    /\ now = 500
    /\ suppressEchoUntil = 0
    /\ useFirebase \in BOOLEAN
    /\ localStore \in {<<>>, Unparseable, WrongShape, <<ColsBoard>>, <<PlainBoard>>}
    /\ remoteStore \in IF useFirebase THEN {<<>>, WrongShape, <<ColsBoard>>} ELSE {<<>>}
    /\ file \in {Unparseable, WrongShape, <<PlainBoard>>}
    /\ lastSaveAt = -1
    /\ Dnd = IdleDnd
    /\ dom = EmptyDocument
    /\ timers = NoTimers
    /\ gesture = NoGesture
    /\ ev = NoEv

\* Store.state has a columns array (the model holds nothing else in it that
\* Store.validateState could reject)
StateIsValid == state # NoColumns

\* startup, then imports, snapshots and Store.addColumn calls; with no
\* columns array in Store.state a merge and addColumn throw at
\* Store.state.columns before they assign anything
NextAdopt ==
    \/ \E loadThrows \in BOOLEAN, saveThrows \in BOOLEAN :
          /\ ~Started /\ OpCount < MaxOps
          /\ ~useFirebase => (~loadThrows /\ ~saveThrows)
          /\ LoadState(loadThrows, saveThrows)
    \/ \E choice \in {"merge", "replace"} :
          /\ Started /\ OpCount < MaxOps
          /\ StateIsValid \/ choice = "replace"
          /\ ImportJSON(choice, TRUE)
    \/ \E incoming \in {<<>>, WrongShape, <<ColsBoard>>, <<PlainBoard>>} :
          Started /\ OpCount < MaxOps /\ SubscribeDeliver(incoming)
    \/ \E title \in {"Later"} :
          /\ Started /\ OpCount < MaxOps
          /\ StateIsValid
          /\ Len(state) < MaxCols
          /\ findColumn(state, "n1") = 0
          /\ AddColumn("n1", title, TRUE)

SpecAdopt == InitAdopt /\ [][NextAdopt]_vars

\* C36: once startup has completed Store.state passes Store.validateState,
\* whatever was loaded, imported or delivered, and a delivered snapshot
\* that changed Store.state had passed validation.
C36_StateAlwaysValid ==
    /\ Started => StateIsValid
    /\ (ev.op = "deliver" /\ state # ev.pre) => validateState(ev.incoming)

\* the board the local store holds, if it holds one, else the demo board
SeedBoard ==
    IF localStore \notin {<<>>, Unparseable, WrongShape} THEN localStore[1]
    ELSE getDemoState

\* C38: when the remote backend is configured, its load returns no data
\* and neither it nor the seeding save throws, Store.loadState leaves as
\* Store.state the local store's board if it holds one, else the demo
\* board (with the archive column backfilled), and the remote store holds
\* that same board.
C38_StartupSeeding ==
    [][ (/\ ev'.op = "loadState" /\ ev'.n # OpCount
         /\ useFirebase /\ remoteStore = <<>>
         /\ ~ev'.loadThrows /\ ~ev'.saveThrows)
        => /\ state' = ensureArchive(SeedBoard)
           /\ remoteStore' = <<state'>> ]_vars

\* C39: when the remote backend is configured and FirebaseBackend.load
\* throws, or the remote store is empty and the seeding save throws,
\* Store.loadState does not throw and leaves the local store's board if it
\* holds one, else the demo board (archive column backfilled).
C39_RemoteFailureFallsBack ==
    [][ (/\ ev'.op = "loadState" /\ ev'.n # OpCount
         /\ useFirebase
         /\ ev'.loadThrows \/ (remoteStore = <<>> /\ ev'.saveThrows))
        => /\ ~ev'.threw
           /\ state' = ensureArchive(SeedBoard)
           /\ remoteStore' = remoteStore ]_vars

\* the archive column is the last column of the board, and the only one
ArchiveLast(cols) ==
    /\ cols # <<>>
    /\ cols[Len(cols)].isArchive
    /\ ArchiveCount(cols) = 1

\* C40: after a Store.addColumn call, from any board that addColumn,
\* deleteColumn, reorderColumns, imports and snapshots led to, the new column
\* (no cards, not done, not archive) stands directly left of the archive
\* column, which is the last column, and the rest of the board is as it was.
C40_AddColumnBeforeArchive ==
    ev.op = "addColumn" =>
        LET k == findColumn(state, ev.colId)
        IN  /\ k # 0
            /\ state[k].cards = <<>> /\ ~state[k].isDone /\ ~state[k].isArchive
            /\ RemoveAt(state, k) = ev.pre
            /\ k = Len(state) - 1
            /\ ArchiveLast(state)

-----------------------------------------------------------------------------
(* The column drag: startColumnDrag, onColMove, endColDrag *)

\* the section element startColumnDrag creates as the placeholder of the
\* n-th drag; it has no data-id
ColPlaceholderIds == <<"ph1", "ph2", "ph3", "ph4">>

ColPlaceholderEl(n) == [id |-> ColPlaceholderIds[n], isArchive |-> FALSE, children |-> <<>>]

\* el has the class column-placeholder
IsColPlaceholder(el) == \E n \in 1..Len(ColPlaceholderIds) : el = ColPlaceholderEl(n)

\* pointerdown on the drag handle of the i-th child of the board element
startColumnDrag(p, button, i) ==
    /\ i \in 1..Len(dom.lists)
    /\ ~IsColPlaceholder(dom.lists[i])
    /\ ev' = [op |-> "startColumnDrag", pointerId |-> p, colId |-> dom.lists[i].id,
              pre |-> state, preDnd |-> Dnd, preDom |-> dom, called |-> FALSE]
    /\ IF button # 0 \/ dom.lists[i].isArchive
       THEN UNCHANGED dndVars
       ELSE /\ dom' = [dom EXCEPT !.lists[i] = ColPlaceholderEl(gesture.n + 1),
                                  !.ghosts = @ + 1]
            /\ Dnd' = [Dnd EXCEPT !.colDrag = [pointerId |-> p, srcEl |-> dom.lists[i],
                                               placeholder |-> gesture.n + 1],
                                  !.autoScrollInterval = TRUE]
            /\ gesture' = [gesture EXCEPT !.n = @ + 1]
            /\ UNCHANGED timers
    /\ UNCHANGED storeVars

\* Dnd.onColMove moving the placeholder: t numbers the first element, among
\* the columns that are neither placeholder nor archive, whose centre lies
\* right of the ghost's centre (one more than their number: none does)
moveColPlaceholder(d, D, t) ==
    LET ph == ColPlaceholderEl(D.colDrag.placeholder)
        items == SelectSeq(d.lists, LAMBDA el : ~IsColPlaceholder(el) /\ ~el.isArchive)
        without == SelectSeq(d.lists, LAMBDA el : el # ph)
        archiveCol == FirstIndex(without, LAMBDA el : el.isArchive)
        at == IF t <= Len(items)
              THEN FirstIndex(without, LAMBDA el : el = items[t]) - 1
              ELSE IF archiveCol # 0 THEN archiveCol - 1
              ELSE Len(without)
    IN  [d EXCEPT !.lists = InsertAt(without, at, ph)]

\* pointermove on the document while a column drag is open
onColMove(p, t) ==
    /\ Dnd.colDrag # NullCol
    /\ ev' = [op |-> "onColMove", pointerId |-> p, pre |-> state, preDnd |-> Dnd,
              preDom |-> dom, called |-> FALSE]
    /\ dom' = moveColPlaceholder(dom, Dnd, t)
    /\ UNCHANGED <<Dnd, timers, gesture>>
    /\ UNCHANGED storeVars

\* pointerup or pointercancel (kind) of any pointer on the document while a
\* column drag is open (the listeners are registered from startColumnDrag to
\* endColDrag); ok: whether the remote save succeeds
endColDrag(p, kind, ok) ==
    /\ Dnd.colDrag # NullCol
    /\ ev' = [op |-> "endColDrag", kind |-> kind, pointerId |-> p, pre |-> state,
              preDnd |-> Dnd, preDom |-> dom, called |-> TRUE, ok |-> ok]
    /\ LET ph == ColPlaceholderEl(Dnd.colDrag.placeholder)
           lists == [i \in 1..Len(dom.lists) |->
                       IF dom.lists[i] = ph THEN Dnd.colDrag.srcEl
                       ELSE dom.lists[i]]
           order == [i \in 1..Len(lists) |-> lists[i].id]
       IN  /\ dom' = [dom EXCEPT !.lists = lists, !.ghosts = @ - 1]
           /\ state' = reorderColumns(state, order)
           /\ saveState(state', ok)
           /\ Dnd' = [Dnd EXCEPT !.colDrag = NullCol, !.autoScrollInterval = FALSE]
           /\ UNCHANGED <<timers, gesture>>
    /\ UNCHANGED <<seqKey, now, useFirebase, file>>

\* a file with one column the board does not have
DragFiles == { << << Column("S", "Shipped", FALSE, FALSE, <<>>) >> >> }

\* a loaded and rendered board
InitColDrag ==
    /\ state = ColsBoard
    /\ seqKey = 1
    /\ now = 500
    /\ suppressEchoUntil = 0
    /\ useFirebase \in BOOLEAN
    /\ localStore = <<ColsBoard>>
    /\ remoteStore = IF useFirebase THEN <<ColsBoard>> ELSE <<>>
    /\ file \in DragFiles
    /\ lastSaveAt = -1
    /\ Dnd = IdleDnd
    /\ dom = renderBoard(EmptyDocument, state)
    /\ timers = NoTimers
    /\ gesture = NoGesture
    /\ ev = NoEv

\* presses on drag handles at any time, moves and releases of any pointer,
\* and (the import dialog is modal) one merge while no drag is open
NextColDrag ==
    \/ \E p \in PointerIds, button \in {0, 2}, i \in 1..MaxDomCols :
          gesture.n < MaxGestures /\ startColumnDrag(p, button, i)
    \/ \E p \in PointerIds, t \in 1..MaxDomCols :
          /\ t <= Len(SelectSeq(dom.lists,
                                LAMBDA el : ~IsColPlaceholder(el) /\ ~el.isArchive)) + 1
          /\ onColMove(p, t)
    \/ \E p \in PointerIds, kind \in {"pointerup", "pointercancel"}, ok \in SaveOutcomes :
          endColDrag(p, kind, ok)
    \/ \E ok \in SaveOutcomes :
          /\ Dnd.colDrag = NullCol
          /\ findColumn(state, "S") = 0
          /\ ImportJSON("merge", ok)

SpecColDrag == InitColDrag /\ [][NextColDrag]_vars

\* the ids of a sequence of columns or of column elements
IdSeq(cols) == [i \in 1..Len(cols) |-> cols[i].id]

\* a and b hold the same columns (ids unique), in any order
SameColumns(a, b) ==
    /\ Len(a) = Len(b)
    /\ \A i \in 1..Len(a) : \E j \in 1..Len(b) : a[i] = b[j]
    /\ \A j \in 1..Len(b) : \E i \in 1..Len(a) : a[i] = b[j]

\* some placeholder stands right of an archive column in the board element
PlaceholderAfterArchive ==
    \E i \in 1..Len(dom.lists) : \E j \in (i + 1)..Len(dom.lists) :
        dom.lists[i].isArchive /\ IsColPlaceholder(dom.lists[j])

\* the last event ended a column drag
EvColEnded == ev.op = "endColDrag" /\ ev.called

\* C35: a press on the archive column starts no column drag; no placeholder
\* ever stands right of the archive column; when a column drag has ended
\* the board holds the columns it held before (each with its cards), in the
\* order of the column elements of the document, with the archive column
\* last.
C35_ColumnDragKeepsArchiveLast ==
    /\ (ev.op = "startColumnDrag"
          /\ \E i \in 1..Len(ev.preDom.lists) :
                 ev.preDom.lists[i].id = ev.colId /\ ev.preDom.lists[i].isArchive)
         => (Dnd = ev.preDnd /\ dom = ev.preDom)
    /\ ~PlaceholderAfterArchive
    /\ EvColEnded =>
          /\ SameColumns(state, ev.pre)
          /\ IdSeq(state) = IdSeq(dom.lists)
          /\ state[Len(state)].isArchive

\* C37: a pointerup or pointercancel of a pointer other than the one the
\* open column drag was started with does not call Store.reorderColumns and
\* leaves the board and Dnd.colDrag as they were.
C37_ColumnDragEndsOnOwnPointer ==
    (/\ ev.op = "endColDrag"
     /\ ev.preDnd.colDrag # NullCol
     /\ ev.pointerId # ev.preDnd.colDrag.pointerId)
        => /\ ~ev.called
           /\ state = ev.pre
           /\ Dnd.colDrag = ev.preDnd.colDrag

====
